---- MODULE Spec2Model ----
(***************************************************************************)
(* mantle-lit: one custom element generated by createView and the          *)
(* ViewModel it wraps (src/src/mantle.ts), the global error sink           *)
(* (src/src/config.ts), the MobX reactions the ViewModel creates and the   *)
(* behaviors it hosts.                                                     *)
(*                                                                         *)
(* A view class is a record of its own fields and of the prototypes        *)
(* between the instance and ViewModel; the instrumentation (_initMobX,     *)
(* _makeAutoObservable) computes from it the annotations it hands to       *)
(* makeObservable.                                                         *)
(*                                                                         *)
(* Every handler (createView, mount, connectedCallback,                    *)
(* disconnectedCallback, watch, a watch disposer, a state write, an        *)
(* action method, a detached method call, a prop accessor, configure, a    *)
(* debounce timer) is one action, and acts on the element in focus; a      *)
(* second element of the same view is kept in sibling.  A handler is       *)
(* computed by operators over a record s = [el, vm, mobx, beh, out] that   *)
(* follow the statements of the source in order.  out holds what the last  *)
(* handler did: the events it produced (log), the errors it routed (sink), *)
(* what the render function returned (results) and whether an exception   *)
(* escaped it (thrown).  While out.thrown is set                           *)
(* an exception is propagating and every statement is skipped until a      *)
(* catch clears it.                                                        *)
(***************************************************************************)
EXTENDS Integers, Sequences, FiniteSets, TLC

\* Bounds of the model.
MaxWatches == 2
MaxOps == 2
MaxVal == 1
NumBehaviors == 2
MaxDepth == 2

VARIABLES
    VMClass,       \* the class handed to createView: its members and metadata
    customElements,\* the tags registered with the platform
    created,       \* whether an element of the view has been constructed
    options,       \* what createView resolved from its options: [shadow,
                   \* autoObservable, template]
    globalConfig,  \* config.ts globalConfig: [autoObservable, onError]
    connected,     \* whether the platform has the element in the document
    el,            \* GeneratedElement fields
    vm,            \* ViewModel fields
    mobx,          \* the reactions created through MobX
    beh,           \* the behavior instances held by the host's fields
    sibling,       \* another element of the same view and its ViewModel:
                   \* [connected, el, vm, mobx, beh]
    out            \* what the last handler did

vars == <<VMClass, customElements, created, options, globalConfig, connected,
         el, vm, mobx, beh, sibling, out>>

ViewName == "View"
BehaviorName == "Behavior"

\* The host class: one plain field, NumBehaviors fields holding a behavior,
\* and one underscore-prefixed field holding a behavior.
HostFields ==
    <<[key |-> "count", internal |-> FALSE, behavior |-> 0]>>
    \o [i \in 1..NumBehaviors |-> [key |-> "behavior", internal |-> FALSE, behavior |-> i]]
    \o <<[key |-> "_hidden", internal |-> TRUE, behavior |-> NumBehaviors + 1]>>

BehaviorIds == 1..(NumBehaviors + 1)

Values == 0..MaxVal

MountResults == {"undefined", "fn", "promise", "throw"}

RenderResults == {"template", "null"}

\* The props the view declares with @property().
PropKeys == {"title", "items"}

\* JavaScript values a prop can hold: undefined, a number, an array (with
\* its contents, and whether it is the plain array user code made or the
\* observable array MobX makes of it, a different object).  Absent stands
\* for a key the storage object does not have.
Undefined == [t |-> "undefined", v |-> 0, observable |-> FALSE]

Absent == [t |-> "absent", v |-> 0, observable |-> FALSE]

Number(n) == [t |-> "number", v |-> n, observable |-> FALSE]

PlainArray(n) == [t |-> "array", v |-> n, observable |-> FALSE]

\* The values user code assigns to a prop.
PropInputs == {Number(n) : n \in Values} \cup {PlainArray(n) : n \in Values}

\* An accessor is reached through the element or on the ViewModel.
Vias == {"element", "vm"}

\* The error handlers user code may install, and the value of onError when
\* none is installed.
Handlers == {"h1", "h2"}

NoHandler == "undefined"

ConfigKeys == {"autoObservable", "onError"}

\* The arguments of configure: an object that has the keys in keys, with the
\* values given for them (the value of a key it lacks is not looked at).
MantleConfig ==
    {c \in [keys : SUBSET ConfigKeys, autoObservable : BOOLEAN,
            onError : Handlers \cup {NoHandler}] :
        /\ "autoObservable" \notin c.keys => c.autoObservable
        /\ "onError" \notin c.keys => c.onError = NoHandler}

\* The tag the view is registered under.
Tag == "x-view"

----------------------------------------------------------------------------
\* Classes: what createView and instrumentation read of the class they are
\* given and of an instance of it.

\* An exclusion list that names the hooks only.
BASE_EXCLUDES_hooksOnly == {"onCreate", "onMount", "onUnmount"}

\* Base class members that should not be made observable.
BASE_EXCLUDES ==
    {"onCreate", "onMount", "onUnmount", "render", "watch", "constructor",
     "_behaviors", "_collectBehaviors", "_mountBehaviors", "_unmountBehaviors",
     "_watchDisposers", "_disposeWatchers", "_mountCleanup", "_initialized",
     "_autoObservable"}

\* key.startsWith('_'), for the member names of the model.
startsWithUnderscore(key) ==
    key \in {"_hidden", "_cache", "_behaviors", "_collectBehaviors",
             "_mountBehaviors", "_unmountBehaviors", "_watchDisposers",
             "_disposeWatchers", "_mountCleanup", "_initialized",
             "_autoObservable"}

\* The members every object literal inherits from Object.prototype.
ObjectPrototypeKeys ==
    {"constructor", "toString", "toLocaleString", "valueOf", "hasOwnProperty",
     "isPrototypeOf", "propertyIsEnumerable", "__proto__"}

\* An own enumerable field of an instance, as the constructor leaves it:
\* it holds a function, a behavior or another value, and may carry a
\* decorator.
Field(key, kind, annotated) ==
    [key |-> key, internal |-> startsWithUnderscore(key),
     behavior |-> IF kind = "behavior" THEN 1 ELSE 0,
     fn |-> (kind = "function"), annotated |-> annotated]

FieldKinds == {"value", "function", "behavior"}

\* An own property of a prototype: a method, a getter, or an accessor pair
\* defined by createView (the only enumerable ones).
Descriptor(key, kind, annotated) == [key |-> key, kind |-> kind, annotated |-> annotated]

DescriptorKinds == {"method", "getter"}

\* The class of the view of the lifecycle specifications: the fields of
\* HostFields, the hooks, render() and increment(), the props of PropKeys,
\* no decorator.
HostClass ==
    [fields |-> [i \in 1..Len(HostFields) |->
                    [key |-> HostFields[i].key, internal |-> HostFields[i].internal,
                     behavior |-> HostFields[i].behavior, fn |-> FALSE,
                     annotated |-> FALSE]],
     chain |-> <<{Descriptor(k, "method", FALSE) :
                     k \in {"onCreate", "onMount", "onUnmount", "render", "increment"}}>>,
     PROPERTIES |-> PropKeys]

\* The accessors createView defines on the prototype of the class for its
\* declared props.
defineAccessors(c) ==
    [c EXCEPT !.chain[1] =
        {d \in @ : d.key \notin c.PROPERTIES}
        \cup {Descriptor(key, "accessor", FALSE) : key \in c.PROPERTIES}]

\* getPropertyDeclarations(ctor)
getPropertyDeclarations(c) == c.PROPERTIES

\* typeof VMClass.prototype.render === 'function': the nearest prototype
\* that has a member render decides; a getter yields what it computes, which
\* is not a function.
RECURSIVE RenderFrom(_, _)
RenderFrom(c, i) ==
    IF i > Len(c.chain) THEN FALSE
    ELSE IF \E d \in c.chain[i] : d.key = "render"
    THEN \E d \in c.chain[i] : d.key = "render" /\ d.kind = "method"
    ELSE RenderFrom(c, i + 1)

hasRender(c) == RenderFrom(c, 1)

\* The own field key of an instance, or none.
HasField(c, key) == \E i \in 1..Len(c.fields) : c.fields[i].key = key

FieldAt(c, key) == c.fields[CHOOSE i \in 1..Len(c.fields) : c.fields[i].key = key]

\* Object.keys(this) and Object.keys(Object.getPrototypeOf(this))
OwnKeys(c) == {c.fields[i].key : i \in 1..Len(c.fields)}

EnumerableKeys(level) == {d.key : d \in {x \in level : x.kind = "accessor"}}

\* The classes of the classification specifications.  The role of a member
\* depends on the places its name is defined at and on whether the class
\* has a decorator at all, so a class of the family defines one name, as an
\* own field and on any of the MaxDepth prototypes between the instance and
\* ViewModel (1 is the class of the instance), and may have a decorated
\* field filter besides.  The name is a plain one, one with an underscore,
\* the name of a base class member or the name of a member of
\* Object.prototype.
MemberKeys == {"count", "_cache", "render", "toString"}

FieldChoices ==
    {x \in [kind : FieldKinds \cup {"absent"}, annotated : BOOLEAN] :
        x.annotated => x.kind = "value"}

DescriptorChoices ==
    {x \in [kind : DescriptorKinds \cup {"absent"}, annotated : BOOLEAN] :
        x.annotated => x.kind # "absent"}

ClassOf(key, own, inherited, decorated) ==
    [fields |-> (IF own.kind = "absent" THEN <<>>
                 ELSE <<Field(key, own.kind, own.annotated)>>)
                \o (IF decorated THEN <<Field("filter", "value", TRUE)>> ELSE <<>>),
     chain |-> [l \in 1..MaxDepth |->
                   IF inherited[l].kind = "absent" THEN {}
                   ELSE {Descriptor(key, inherited[l].kind, inherited[l].annotated)}],
     PROPERTIES |-> PropKeys]

Classes ==
    {ClassOf(key, own, inherited, decorated) :
        key \in MemberKeys, own \in FieldChoices,
        inherited \in [1..MaxDepth -> DescriptorChoices], decorated \in BOOLEAN}

\* The values a constructor may leave in an own field: a function, a
\* behavior instance, or another value.
FieldValues ==
    {[fn |-> TRUE, behavior |-> 0], [fn |-> FALSE, behavior |-> 0]}
    \cup {[fn |-> FALSE, behavior |-> b] : b \in BehaviorIds}

\* typeof value === 'function', a behavior instance, or neither.
KindOf(f) ==
    IF f.fn THEN "function" ELSE IF f.behavior # 0 THEN "behavior" ELSE "value"

\* What another instance of the class may hold in its own fields after its
\* constructor ran: the same keys, each with any value.
OtherFields(c) ==
    {[i \in 1..Len(c.fields) |->
         [c.fields[i] EXCEPT !.behavior = values[i].behavior, !.fn = values[i].fn]] :
        values \in [1..Len(c.fields) -> FieldValues]}

\* The instances whose fields hold values of the same kinds as those of c.
SameKinds(c) ==
    {other \in OtherFields(c) :
        \A i \in 1..Len(c.fields) : KindOf(other[i]) = KindOf(c.fields[i])}

----------------------------------------------------------------------------
\* Events, exceptions, the error sink.

Ev(e, i, v) == [ev |-> e, id |-> i, val |-> v]

Emit(s, e, i, v) == [s EXCEPT !.out.log = Append(@, Ev(e, i, v))]

Throw(s, e) == [s EXCEPT !.out.thrown = TRUE, !.out.err = e]

Caught(s) == [s EXCEPT !.out.thrown = FALSE, !.out.err = ""]

\* reportError calling the handler and logging as well.
reportError_alsoLogs(s, e, phase, name, isBehavior) ==
    LET entry == [to |-> "console", error |-> e, phase |-> phase, name |-> name,
                  isBehavior |-> isBehavior]
    IN  [s EXCEPT !.out.sink =
            IF globalConfig.onError # NoHandler
            THEN @ \o <<[entry EXCEPT !.to = globalConfig.onError], entry>>
            ELSE Append(@, entry)]

\* A handler user code may install that throws when it is called.
ThrowingHandler == "hThrows"

\* reportError: the handler is called without a guard, so what it throws
\* leaves reportError.
reportError(s, e, phase, name, isBehavior) ==
    LET s1 == [s EXCEPT !.out.sink = Append(@,
                  [to |-> IF globalConfig.onError # NoHandler
                          THEN globalConfig.onError ELSE "console",
                   error |-> e, phase |-> phase, name |-> name,
                   isBehavior |-> isBehavior])]
    IN  IF globalConfig.onError = ThrowingHandler
        THEN Throw(Emit(s1, "onError.throws", 0, 0), "handlerError")
        ELSE s1

\* The object without keys.
EmptyConfig == [keys |-> {}, autoObservable |-> TRUE, onError |-> NoHandler]

\* configure storing its argument in place of the configuration.
configure_replaces(c) ==
    [autoObservable |-> IF "autoObservable" \in c.keys THEN c.autoObservable ELSE TRUE,
     onError |-> IF "onError" \in c.keys THEN c.onError ELSE NoHandler]

\* Object.assign(globalConfig, config)
configure(c) ==
    [autoObservable |-> IF "autoObservable" \in c.keys
                        THEN c.autoObservable ELSE globalConfig.autoObservable,
     onError |-> IF "onError" \in c.keys THEN c.onError ELSE globalConfig.onError]

----------------------------------------------------------------------------
\* Behaviors (./behavior).

isBehavior(f) == f.behavior # 0

mountBehavior(s, b, in) ==
    IF s.out.thrown THEN s
    ELSE LET s1 == Emit(s, "mountBehavior", b, 0)
         IN  IF b \in in.bMountThrows
             THEN reportError(Emit(s1, "mountBehavior.throws", b, 0),
                              "behaviorMountError", "onMount", BehaviorName, TRUE)
             ELSE [s1 EXCEPT !.beh[b] = TRUE]

unmountBehavior(s, b, in) ==
    IF s.out.thrown THEN s
    ELSE LET s1 == Emit(s, "unmountBehavior", b, 0)
         IN  IF b \in in.bUnmountThrows
             THEN reportError(Emit(s1, "unmountBehavior.throws", b, 0),
                              "behaviorUnmountError", "onUnmount", BehaviorName, TRUE)
             ELSE [s1 EXCEPT !.beh[b] = FALSE]

----------------------------------------------------------------------------
\* ViewModel.

\* _collectBehaviors without the test of the underscore.
_collectBehaviors_allKeys(s) ==
    LET found == SelectSeq(VMClass.fields, LAMBDA f : isBehavior(f))
    IN  [s EXCEPT !.vm.behaviors = @ \o [k \in 1..Len(found) |-> found[k].behavior]]

_collectBehaviors(s) ==
    LET found == SelectSeq(VMClass.fields, LAMBDA f : ~f.internal /\ isBehavior(f))
    IN  [s EXCEPT !.vm.behaviors = @ \o [k \in 1..Len(found) |-> found[k].behavior]]

RECURSIVE MountFrom(_, _, _)
MountFrom(s, k, in) ==
    IF k > Len(s.vm.behaviors) THEN s
    ELSE MountFrom(mountBehavior(s, s.vm.behaviors[k], in), k + 1, in)

\* _mountBehaviors leaving its loop at the first behavior that reports an
\* error.
RECURSIVE MountUntilFailure(_, _, _)
MountUntilFailure(s, k, in) ==
    IF k > Len(s.vm.behaviors) THEN s
    ELSE LET r == mountBehavior(s, s.vm.behaviors[k], in)
         IN  IF Len(r.out.sink) > Len(s.out.sink) THEN r
             ELSE MountUntilFailure(r, k + 1, in)

_mountBehaviors_stopOnFailure(s, in) ==
    IF s.out.thrown THEN s ELSE MountUntilFailure(s, 1, in)

_mountBehaviors(s, in) ==
    IF s.out.thrown THEN s ELSE MountFrom(s, 1, in)

RECURSIVE UnmountFrom(_, _, _)
UnmountFrom(s, k, in) ==
    IF k > Len(s.vm.behaviors) THEN s
    ELSE UnmountFrom(unmountBehavior(s, s.vm.behaviors[k], in), k + 1, in)

_unmountBehaviors(s, in) ==
    IF s.out.thrown THEN s ELSE UnmountFrom(s, 1, in)

\* The deep enhancer of observable.object: an array (a plain object, a
\* map, a set) is replaced by an observable copy, any other value is kept.
deepEnhancer(x) == IF x.t = "array" THEN [x EXCEPT !.observable = TRUE] ELSE x

\* storage[key] of a plain or observable object.
ReadKey(storage, key) ==
    IF storage.values[key] = Absent THEN Undefined ELSE storage.values[key]

NoStorage == [kind |-> "undefined", values |-> [k \in PropKeys |-> Absent]]

\* _makePropsObservable building an empty observable object.
_makePropsObservable_dropsValues(s) ==
    IF s.vm.PROP_VALUES.kind = "undefined" THEN s
    ELSE [s EXCEPT !.vm.PROP_VALUES =
                       [kind |-> "observable", values |-> [k \in PropKeys |-> Absent]],
                   !.vm.PROP_VALUES_OBSERVABLE = TRUE]

_makePropsObservable(s) ==
    IF s.vm.PROP_VALUES.kind = "undefined" THEN s
    ELSE [s EXCEPT !.vm.PROP_VALUES =
                       [kind |-> "observable",
                        values |-> [k \in PropKeys |-> deepEnhancer(@.values[k])]],
                   !.vm.PROP_VALUES_OBSERVABLE = TRUE]

\* The annotation a decorator records for a member: an observable field,
\* a computed getter, an action method (auto-bound).
DecoratorRole(kind) ==
    CASE kind = "getter" -> "computed"
      [] kind = "method" -> "action"
      [] OTHER -> "observable"

DecoratedFields(c) == {c.fields[i].key : i \in {j \in 1..Len(c.fields) : c.fields[j].annotated}}

DecoratedAt(c, l) == {d \in c.chain[l] : d.annotated}

DecoratedMembers(c) == UNION {{d.key : d \in DecoratedAt(c, l)} : l \in 1..Len(c.chain)}

\* getAnnotations(this): the annotations the decorators of the class and of
\* its ancestors recorded, the most derived one for a name; the empty map
\* stands for the undefined a class without decorators yields.
getAnnotations(c) ==
    [key \in DecoratedFields(c) \cup DecoratedMembers(c) |->
        IF key \in DecoratedFields(c) THEN "observable"
        ELSE LET l == CHOOSE i \in 1..Len(c.chain) :
                          /\ \E d \in DecoratedAt(c, i) : d.key = key
                          /\ \A j \in 1..(i - 1) : \A d \in DecoratedAt(c, j) : d.key # key
                 d == CHOOSE x \in DecoratedAt(c, l) : x.key = key
             IN  DecoratorRole(d.kind)]

NoAnnotations == [key \in {} |-> ""]

\* A test that never finds a name in the annotations collected so far.
In_never(key, annotations) == FALSE

\* key in annotations, where annotations is an object literal: true of the
\* keys it was given and of the members it inherits from Object.prototype.
In(key, annotations) == key \in DOMAIN annotations \/ key \in ObjectPrototypeKeys

\* annotations[key] = role
Assign(annotations, key, role) ==
    [k \in DOMAIN annotations \cup {key} |-> IF k = key THEN role ELSE annotations[k]]

\* The loop over the descriptors of one prototype in _initMobX: a method
\* that has no annotation yet becomes action.bound.
RECURSIVE BindDescriptors(_, _)
BindDescriptors(descriptors, annotations) ==
    IF descriptors = {} THEN annotations
    ELSE LET d == CHOOSE x \in descriptors : TRUE
             rest == descriptors \ {d}
         IN  IF d.key \in BASE_EXCLUDES THEN BindDescriptors(rest, annotations)
             ELSE IF In(d.key, annotations) THEN BindDescriptors(rest, annotations)
             ELSE IF d.kind = "method"
             THEN BindDescriptors(rest, Assign(annotations, d.key, "action.bound"))
             ELSE BindDescriptors(rest, annotations)

\* The walk of the prototype chain in _initMobX, from the class of the
\* instance up to (not including) ViewModel.
RECURSIVE BindFrom(_, _, _)
BindFrom(c, l, annotations) ==
    IF l > Len(c.chain) THEN annotations
    ELSE BindFrom(c, l + 1, BindDescriptors(c.chain[l], annotations))

\* this[key] for an own key or an enumerable key of the prototype (an
\* accessor createView defined, which yields a prop value).
ThisValue(c, key) ==
    IF HasField(c, key) THEN FieldAt(c, key) ELSE Field(key, "value", FALSE)

\* The first loop of _makeAutoObservable telling the behaviors apart by
\* their identity.
RECURSIVE ObserveKeys_byIdentity(_, _, _)
ObserveKeys_byIdentity(c, keys, annotations) ==
    IF keys = {} THEN annotations
    ELSE LET key == CHOOSE k \in keys : TRUE
             rest == keys \ {key}
             value == ThisValue(c, key)
         IN  IF key \in BASE_EXCLUDES THEN ObserveKeys_byIdentity(c, rest, annotations)
             ELSE IF startsWithUnderscore(key)
             THEN ObserveKeys_byIdentity(c, rest, annotations)
             ELSE IF In(key, annotations) THEN ObserveKeys_byIdentity(c, rest, annotations)
             ELSE IF key \in getPropertyDeclarations(c)
             THEN ObserveKeys_byIdentity(c, rest, annotations)
             ELSE IF value.fn THEN ObserveKeys_byIdentity(c, rest, annotations)
             ELSE IF isBehavior(value) /\ value.behavior = 1
             THEN ObserveKeys_byIdentity(c, rest, Assign(annotations, key, "observable.ref"))
             ELSE ObserveKeys_byIdentity(c, rest, Assign(annotations, key, "observable"))

\* The first loop of _makeAutoObservable, over the own keys.
RECURSIVE ObserveKeys(_, _, _)
ObserveKeys(c, keys, annotations) ==
    IF keys = {} THEN annotations
    ELSE LET key == CHOOSE k \in keys : TRUE
             rest == keys \ {key}
             value == ThisValue(c, key)
         IN  IF key \in BASE_EXCLUDES THEN ObserveKeys(c, rest, annotations)
             ELSE IF startsWithUnderscore(key) THEN ObserveKeys(c, rest, annotations)
             ELSE IF In(key, annotations) THEN ObserveKeys(c, rest, annotations)
             ELSE IF key \in getPropertyDeclarations(c) THEN ObserveKeys(c, rest, annotations)
             ELSE IF value.fn THEN ObserveKeys(c, rest, annotations)
             ELSE IF isBehavior(value)
             THEN ObserveKeys(c, rest, Assign(annotations, key, "observable.ref"))
             ELSE ObserveKeys(c, rest, Assign(annotations, key, "observable"))

\* The loop over the descriptors of one prototype in _makeAutoObservable.
RECURSIVE ClassifyDescriptors(_, _, _)
ClassifyDescriptors(c, descriptors, annotations) ==
    IF descriptors = {} THEN annotations
    ELSE LET d == CHOOSE x \in descriptors : TRUE
             rest == descriptors \ {d}
         IN  IF d.key \in BASE_EXCLUDES THEN ClassifyDescriptors(c, rest, annotations)
             ELSE IF startsWithUnderscore(d.key) THEN ClassifyDescriptors(c, rest, annotations)
             ELSE IF In(d.key, annotations) THEN ClassifyDescriptors(c, rest, annotations)
             ELSE IF d.key \in getPropertyDeclarations(c)
             THEN ClassifyDescriptors(c, rest, annotations)
             ELSE IF d.kind \in {"getter", "accessor"}
             THEN ClassifyDescriptors(c, rest, Assign(annotations, d.key, "computed"))
             ELSE IF d.kind = "method"
             THEN ClassifyDescriptors(c, rest, Assign(annotations, d.key, "action.bound"))
             ELSE ClassifyDescriptors(c, rest, annotations)

RECURSIVE ClassifyFrom(_, _, _)
ClassifyFrom(c, l, annotations) ==
    IF l > Len(c.chain) THEN annotations
    ELSE ClassifyFrom(c, l + 1, ClassifyDescriptors(c, c.chain[l], annotations))

\* _makeAutoObservable: the annotations it hands to makeObservable.
_makeAutoObservable(c) ==
    ClassifyFrom(c, 1,
        ObserveKeys(c, OwnKeys(c) \cup EnumerableKeys(c.chain[1]), NoAnnotations))

\* An instrumentation that infers the roles whenever the class has no
\* decorator, whatever autoObservable is.
Annotations_alwaysInfers(c, autoObservable) ==
    IF getAnnotations(c) # NoAnnotations
    THEN BindFrom(c, 1, getAnnotations(c))
    ELSE _makeAutoObservable(c)

\* The annotations _initMobX hands to makeObservable for an instance of c:
\* the decorators' and the auto-bound methods when the class has
\* decorators, the inferred ones when autoObservable is set, otherwise none
\* (makeObservable(this) applies the metadata of MobX's own decorators).
Annotations(c, autoObservable) ==
    IF getAnnotations(c) # NoAnnotations
    THEN BindFrom(c, 1, getAnnotations(c))
    ELSE IF autoObservable THEN _makeAutoObservable(c)
    ELSE NoAnnotations

\* makeObservable(this, annotations)
makeObservable(s, annotations) == [s EXCEPT !.vm.annotations = annotations]

\* _initMobX without its guard: every call instruments the instance.
_initMobX_noGuard(s) ==
    IF s.out.thrown THEN s
    ELSE makeObservable(
             _collectBehaviors(
                 _makePropsObservable(
                     Emit([s EXCEPT !.vm.initialized = TRUE], "instrument", 0,
                          IF options.autoObservable THEN 1 ELSE 0))),
             Annotations(VMClass, options.autoObservable))

_initMobX(s) ==
    IF s.out.thrown \/ s.vm.initialized THEN s
    ELSE makeObservable(
             _collectBehaviors(
                 _makePropsObservable(
                     Emit([s EXCEPT !.vm.initialized = TRUE], "instrument", 0,
                          IF options.autoObservable THEN 1 ELSE 0))),
             Annotations(VMClass, options.autoObservable))

\* The user's hooks: what one invocation does is an input of the handler.
onMount(s, in) ==
    IF s.out.thrown THEN s
    ELSE LET s1 == Emit(s, "onMount", 0, 0)
         IN  IF in.mount = "throw"
             THEN Throw(Emit(s1, "onMount.throws", 0, 0), "mountError")
             ELSE s1

onUnmount(s, in) ==
    IF s.out.thrown THEN s
    ELSE LET s1 == Emit(s, "onUnmount", 0, 0)
         IN  IF in.unmountThrows
             THEN Throw(Emit(s1, "onUnmount.throws", 0, 0), "unmountError")
             ELSE s1

_callOnMount(s, in) ==
    IF s.out.thrown THEN s
    ELSE LET r == onMount(s, in)
         IN  IF r.out.thrown
             THEN reportError(Caught(r), r.out.err, "onMount", ViewName, FALSE)
             ELSE LET r1 == IF in.mount = "promise"
                            THEN Emit(r, "asyncHookDiagnostic", 0, 0)
                            ELSE r
                  IN  [r1 EXCEPT !.vm.mountCleanup = in.mount]

----------------------------------------------------------------------------
\* MobX reactions (mobx reaction, autorun), as the ViewModel uses them.

\* The disposer MobX returns for reaction i: idempotent.  The event tells
\* whether the reaction was disposed already.
dispose(s, i) ==
    [Emit(s, "dispose", i, IF s.mobx.watches[i].disposed THEN 1 ELSE 0)
        EXCEPT !.mobx.watches[i].disposed = TRUE]

\* The user's watch callback.
callback(s, i, v, in) ==
    IF s.out.thrown THEN s
    ELSE LET s1 == Emit(s, "watchcb", i, v)
         IN  IF i \in in.cbThrows
             THEN Throw(Emit(s1, "watchcb.throws", i, v), "watchError")
             ELSE s1

\* The effect without the try/catch around the callback.
watchEffect_noCatch(s, i, v, in) == callback(s, i, v, in)

\* The effect watch hands to reaction: the callback inside try/catch.
watchEffect(s, i, v, in) ==
    LET r == callback(s, i, v, in)
    IN  IF r.out.thrown
        THEN reportError(Caught(r), r.out.err, "watch", ViewName, FALSE)
        ELSE r

\* MobX runs a reaction (its first run, and every run a change triggers at
\* once) inside its own error boundary: an exception that leaves the effect
\* is logged by MobX and goes no further.  A debounce timer calls
\* reactionRunner outside that boundary.
errorBoundary(r, i) ==
    IF r.out.thrown THEN Emit(Caught(r), "mobxCaught", i, 0) ELSE r

\* reactionRunner of mobx reaction: a disposed reaction does nothing;
\* otherwise the expression is evaluated; the first run calls the effect
\* when fireImmediately is set, a later run when the value changed.  (The
\* fireImmediately option is read by the first run only; the model clears
\* it there.)
reactionRunner(s, i, in) ==
    LET s1 == [s EXCEPT !.mobx.watches[i].isScheduled = FALSE]
        w == s.mobx.watches[i]
        next == s.vm.count
    IN  IF w.disposed THEN s1
        ELSE LET s2 == [s1 EXCEPT !.mobx.watches[i].value = next,
                                  !.mobx.watches[i].firstTime = FALSE,
                                  !.mobx.watches[i].fireImmediately = FALSE]
             IN  IF \/ w.firstTime /\ w.fireImmediately
                    \/ ~w.firstTime /\ w.value # next
                 THEN watchEffect(s2, i, next, in)
                 ELSE s2

\* A debounced reaction running at once, like one without delay.
invalidate_ignoresDelay(s, i, in) ==
    IF s.mobx.watches[i].disposed THEN s
    ELSE errorBoundary(reactionRunner(s, i, in), i)

\* MobX runs reaction i (its first run, or after a change of the watched
\* expression): the first run and a reaction without delay run now, a
\* debounced one starts its timer unless one is pending.
invalidate(s, i, in) ==
    LET w == s.mobx.watches[i]
    IN  IF w.disposed THEN s
        ELSE IF w.firstTime \/ ~w.delay THEN errorBoundary(reactionRunner(s, i, in), i)
        ELSE IF w.isScheduled THEN s
        ELSE [s EXCEPT !.mobx.watches[i].isScheduled = TRUE]

\* Reaction.schedule_ of a new reaction: its first run happens now unless a
\* batch is open, and then when the outermost batch ends.
schedule_(s, i, in) ==
    IF s.mobx.inBatch > 0 THEN s ELSE invalidate(s, i, in)

RECURSIVE InvalidateFrom(_, _, _)
InvalidateFrom(s, i, in) ==
    IF i > Len(s.mobx.watches) THEN s
    ELSE InvalidateFrom(invalidate(s, i, in), i + 1, in)

\* const result = hasRender ? this._vm.render() : template(this._vm): what
\* the render function returned (or that it threw), kept in the record of
\* the handler.
Returned(s, result) == [s EXCEPT !.out.results = Append(@, result)]

\* One run of the render autorun.
\* The function given to autorun handing every result, null as well, to
\* lit-html's render.
renderRun_sinksFalsy(s, in) ==
    LET s1 == Returned(Emit(s, "render", 0, s.vm.count), in.renderResult)
    IN  IF in.renderResult = "throw"
        THEN errorBoundary(Throw(Emit(s1, "render.throws", 0, 0), "renderError"), 0)
        ELSE IF s1.el.renderRoot # "undefined"
        THEN Emit(s1, "renderSink", 0, s.vm.count)
        ELSE s1

\* One run of the render autorun.
\* The function given to autorun handing a failure of the render function
\* to the error sink.
renderRun_routesErrors(s, in) ==
    LET s1 == Returned(Emit(s, "render", 0, s.vm.count), in.renderResult)
    IN  IF in.renderResult = "throw"
        THEN reportError(Emit(s1, "render.throws", 0, 0), "renderError", "render",
                         ViewName, FALSE)
        ELSE IF in.renderResult # "null" /\ s1.el.renderRoot # "undefined"
        THEN Emit(s1, "renderSink", 0, s.vm.count)
        ELSE s1

\* One run of the render autorun: the render function (render() or the
\* template) and, when it returns a template, lit-html's render.  An
\* exception of the render function leaves the function given to autorun
\* and ends in the error boundary of the MobX reaction.
renderRun(s, in) ==
    LET s1 == Returned(Emit(s, "render", 0, s.vm.count), in.renderResult)
    IN  IF in.renderResult = "throw"
        THEN errorBoundary(Throw(Emit(s1, "render.throws", 0, 0), "renderError"), 0)
        ELSE IF in.renderResult # "null" /\ s1.el.renderRoot # "undefined"
        THEN Emit(s1, "renderSink", 0, s.vm.count)
        ELSE s1

RECURSIVE RenderTimes(_, _, _)
RenderTimes(s, n, in) ==
    IF n = 0 THEN s ELSE RenderTimes(renderRun(s, in), n - 1, in)

\* Batches (mobx startBatch, endBatch, runReactions): a change made while a
\* batch is open marks the reactions that read the changed observable;
\* they, and the reactions created in the batch, run when the outermost
\* batch ends, once each.
startBatch(s) == [s EXCEPT !.mobx.inBatch = @ + 1]

RECURSIVE PendingFrom(_, _, _, _)
PendingFrom(s, i, stale, in) ==
    IF i > Len(s.mobx.watches) THEN s
    ELSE PendingFrom(IF stale \/ s.mobx.watches[i].firstTime
                     THEN invalidate(s, i, in)
                     ELSE s,
                     i + 1, stale, in)

runReactions(s, in) ==
    LET s0 == [s EXCEPT !.mobx.stale = FALSE, !.mobx.propsStale = FALSE]
        n == IF s.mobx.stale \/ s.mobx.propsStale THEN s.mobx.renders ELSE 0
    IN  PendingFrom(RenderTimes(s0, n, in), 1, s.mobx.stale, in)

\* endBatch is reached through a finally: an exception that is propagating
\* goes on after it.
endBatch(s, in) ==
    LET s1 == [Caught(s) EXCEPT !.mobx.inBatch = @ - 1]
        s2 == IF s1.mobx.inBatch = 0 THEN runReactions(s1, in) ELSE s1
    IN  IF s.out.thrown THEN Throw(s2, s.out.err) ELSE s2

----------------------------------------------------------------------------
\* ViewModel.watch and teardown.

IndexOf(seq, x) ==
    IF \E k \in 1..Len(seq) : seq[k] = x
    THEN CHOOSE k \in 1..Len(seq) : seq[k] = x /\ \A j \in 1..(k - 1) : seq[j] # x
    ELSE 0

Splice(seq, k) == [j \in 1..(Len(seq) - 1) |-> IF j < k THEN seq[j] ELSE seq[j + 1]]

watch(s, delay, fireImmediately, in) ==
    LET i == Len(s.mobx.watches) + 1
        w == [disposed |-> FALSE, delay |-> delay, isScheduled |-> FALSE,
              value |-> s.vm.count, firstTime |-> TRUE,
              fireImmediately |-> fireImmediately]
        s0 == Emit(s, IF fireImmediately THEN "watch.fireImmediately" ELSE "watch",
                   i, s.vm.count)
        s1 == [s0 EXCEPT !.mobx.watches = Append(@, w)]
        s2 == schedule_(s1, i, in)
    IN  Emit([s2 EXCEPT !.vm.watchDisposers = Append(@, i)], "watch.returns", i, 0)

\* The disposer without the idx !== -1 test: splice(-1, 1) removes the last
\* element of the list.
watchDisposer_noIndexCheck(s, i) ==
    LET s1 == dispose(s, i)
        idx == IndexOf(s1.vm.watchDisposers, i)
        list == s1.vm.watchDisposers
    IN  IF idx # 0
        THEN [s1 EXCEPT !.vm.watchDisposers = Splice(@, idx)]
        ELSE IF list # <<>>
        THEN [s1 EXCEPT !.vm.watchDisposers = Splice(@, Len(list))]
        ELSE s1

\* The function watch returns for reaction i.
watchDisposer(s, i) ==
    LET s1 == dispose(s, i)
        idx == IndexOf(s1.vm.watchDisposers, i)
    IN  IF idx # 0
        THEN [s1 EXCEPT !.vm.watchDisposers = Splice(@, idx)]
        ELSE s1

RECURSIVE DisposeFrom(_, _)
DisposeFrom(s, k) ==
    IF k > Len(s.vm.watchDisposers) THEN s
    ELSE DisposeFrom(dispose(s, s.vm.watchDisposers[k]), k + 1)

\* _disposeWatchers emptying the list without calling the disposers.
_disposeWatchers_onlyClears(s) ==
    IF s.out.thrown THEN s
    ELSE [Emit(s, "disposeWatchers", 0, 0) EXCEPT !.vm.watchDisposers = <<>>]

_disposeWatchers(s) ==
    IF s.out.thrown THEN s
    ELSE [Emit(DisposeFrom(s, 1), "disposeWatchers", 0, 0)
             EXCEPT !.vm.watchDisposers = <<>>]

\* this._mountCleanup?.()
callMountCleanup(s, in) ==
    IF s.out.thrown \/ s.vm.mountCleanup = "undefined" THEN s
    ELSE IF s.vm.mountCleanup = "fn"
    THEN LET s1 == Emit(s, "teardown", 0, 0)
         IN  IF in.cleanupThrows
             THEN Throw(Emit(s1, "teardown.throws", 0, 0), "cleanupError")
             ELSE s1
    ELSE Throw(s, "TypeError")

callOnUnmountHook(s, in) ==
    IF s.out.thrown THEN s
    ELSE LET r == onUnmount(s, in)
         IN  IF r.out.thrown
             THEN reportError(Caught(r), r.out.err, "onUnmount", ViewName, FALSE)
             ELSE r

_callOnUnmount(s, in) ==
    _unmountBehaviors(
        _disposeWatchers(
            callOnUnmountHook(
                callMountCleanup(s, in), in)), in)

----------------------------------------------------------------------------
\* GeneratedElement.

\* attachShadow throws NotSupportedError on an element that already hosts
\* a shadow root.
attachShadow(s) ==
    IF s.el.shadowRoot
    THEN Throw(Emit(s, "attachShadow.throws", 0, 0), "NotSupportedError")
    ELSE [s EXCEPT !.el.shadowRoot = TRUE]

_createRenderRoot(s) ==
    IF ~options.shadow
    THEN [s EXCEPT !.el.renderRoot = "light"]
    ELSE LET r == attachShadow(s)
         IN  IF r.out.thrown THEN r ELSE [r EXCEPT !.el.renderRoot = "shadow"]

\* A write of v to the observable field count from outside any reaction:
\* every live render autorun and every watch reading it is notified.
writeCount(s, v, in) ==
    IF v = s.vm.count
    THEN [s EXCEPT !.vm.count = v]
    ELSE LET s1 == [s EXCEPT !.vm.count = v]
         IN  InvalidateFrom(RenderTimes(s1, s1.mobx.renders, in), 1, in)

\* this.count = v in user code: outside a batch the reactions run before
\* the assignment returns, inside one they are marked.
setCount(s, v, in) ==
    IF s.mobx.inBatch = 0 THEN writeCount(s, v, in)
    ELSE IF v = s.vm.count THEN s
    ELSE [s EXCEPT !.vm.count = v, !.mobx.stale = TRUE]

\* The getter createView defines on the ViewModel prototype, without the
\* test for the storage.
propGet_noStorageTest(s, key) ==
    IF s.vm.PROP_VALUES.kind = "undefined"
    THEN Throw(s, "TypeError")
    ELSE [s EXCEPT !.out.result = ReadKey(s.vm.PROP_VALUES, key)]

\* The getter createView defines on the ViewModel prototype for a prop.
propGet(s, key) ==
    [s EXCEPT !.out.result = IF s.vm.PROP_VALUES.kind # "undefined"
                             THEN ReadKey(s.vm.PROP_VALUES, key)
                             ELSE Undefined]

\* this[key] of a declared prop, in a hook of the view.
readProp(s, key) == [propGet(s, key) EXCEPT !.out.key = key]

\* The statements of a hook or method of the view: assignments to count,
\* reads of a prop and calls of this.watch.
HookStep(s, o, in) ==
    IF o.op = "write" THEN setCount(s, o.v, in)
    ELSE IF o.op = "read" THEN readProp(s, o.key)
    ELSE watch(s, o.delay, o.fireImmediately, in)

RECURSIVE HookSteps(_, _, _, _)
HookSteps(s, ops, k, in) ==
    IF k > Len(ops) THEN s ELSE HookSteps(HookStep(s, ops[k], in), ops, k + 1, in)

\* A method of the view as called without the action.bound wrapper.
actionBound_noBatch(s, ops, in) == HookSteps(s, ops, 1, in)

\* A method of the view, which instrumentation has wrapped in action.bound:
\* its statements inside a batch.
actionBound(s, ops, in) == endBatch(HookSteps(startBatch(s), ops, 1, in), in)

\* increment() { this.count++ }
increment(s, in) ==
    actionBound(s, <<[op |-> "write", v |-> s.vm.count + 1, delay |-> FALSE,
                      fireImmediately |-> FALSE]>>, in)

\* Whether makeObservable bound the member key to the instance: an
\* action.bound annotation, or the annotation of the @action decorator
\* (auto-bound), defines the bound function as an own property.
Bound(s, key) ==
    /\ key \in DOMAIN s.vm.annotations
    /\ s.vm.annotations[key] \in {"action.bound", "action"}

\* const f = vm[key]; f() for a method that uses this: a bound method runs
\* with the instance as its receiver, any other with undefined.
callDetached(s, key) ==
    IF Bound(s, key)
    THEN Emit(s, "call", 0, 1)
    ELSE Throw(Emit(s, "call", 0, 0), "TypeError")

\* The create hook of the view.
onCreate(s, in) ==
    IF s.out.thrown THEN s
    ELSE LET s1 == HookSteps(Emit(s, "onCreate", 0, 0), in.createOps, 1, in)
             s2 == Emit(s1, "onCreate.returns", 0, 0)
         IN  IF in.createThrows
             THEN Throw(Emit(s1, "onCreate.throws", 0, 0), "createError")
             ELSE s2

\* runInAction(fn): fn inside a batch.
runInAction_noBatch(s, in) == onCreate(s, in)

runInAction(s, in) ==
    IF s.out.thrown THEN s ELSE endBatch(onCreate(startBatch(s), in), in)

\* storage[key] = value on the observable storage, inside runInAction: the
\* value goes through the deep enhancer, and the reactions that read the key
\* run when the batch ends if the value stored is a different one (a new
\* array always is).
observableWrite(s, key, value, in) ==
    LET old == s.vm.PROP_VALUES.values[key]
        new == deepEnhancer(value)
        s1 == Emit(startBatch(s), "runInAction", 0, 0)
        s2 == [s1 EXCEPT !.vm.PROP_VALUES.values[key] = new,
                         !.mobx.propsStale = (new # old \/ new.t = "array")]
    IN  endBatch(s2, in)

\* The setter createView defines on the ViewModel prototype for a prop.
propSet(s, key, value, in) ==
    LET s1 == IF s.vm.PROP_VALUES.kind = "undefined"
              THEN [s EXCEPT !.vm.PROP_VALUES.kind = "plain"]
              ELSE s
    IN  IF s1.vm.PROP_VALUES_OBSERVABLE
        THEN observableWrite(s1, key, value, in)
        ELSE [s1 EXCEPT !.vm.PROP_VALUES.values[key] = value]

\* The accessors createView defines on the element prototype.
elementGet(s, key) == propGet(s, key)

elementSet(s, key, value, in) == propSet(s, key, value, in)

\* The create hook called without the try/catch around it.
callOnCreate_noCatch(s, in) == runInAction(s, in)

\* runInAction(() => this._vm.onCreate?.()) inside try/catch.
callOnCreate(s, in) ==
    IF s.out.thrown THEN s
    ELSE LET r == runInAction(s, in)
         IN  IF r.out.thrown
             THEN reportError(Caught(r), r.out.err, "onCreate", ViewName, FALSE)
             ELSE r

\* connectedCallback rendering once more after it has established the
\* reaction.
autorun_thenFirstRender(s, in) ==
    IF s.out.thrown THEN s
    ELSE renderRun(
             renderRun(
                 Emit([s EXCEPT !.mobx.renders = @ + 1, !.el.renderDisposer = "live"],
                      "autorun", 0, 0), in), in)

\* this._renderDisposer = autorun(...): the new reaction runs once at once.
autorun(s, in) ==
    IF s.out.thrown THEN s
    ELSE renderRun(
             Emit([s EXCEPT !.mobx.renders = @ + 1, !.el.renderDisposer = "live"],
                  "autorun", 0, 0), in)

\* this._renderDisposer?.()
callRenderDisposer(s) ==
    IF s.out.thrown \/ s.el.renderDisposer = "undefined" THEN s
    ELSE LET s1 == Emit(s, "stopRender", 0, 0)
         IN  IF s.el.renderDisposer = "live"
             THEN [s1 EXCEPT !.mobx.renders = @ - 1, !.el.renderDisposer = "disposed"]
             ELSE s1

\* connectedCallback with the render reaction established before the create
\* hook runs.
connectedCallback_renderFirst(s, in) ==
    _callOnMount(
        _mountBehaviors(
            callOnCreate(
                autorun(
                    _initMobX(
                        _createRenderRoot(s)), in), in), in), in)

connectedCallback(s, in) ==
    _callOnMount(
        _mountBehaviors(
            autorun(
                callOnCreate(
                    _initMobX(
                        _createRenderRoot(s)), in), in), in), in)

disconnectedCallback(s, in) ==
    _callOnUnmount(callRenderDisposer(s), in)

----------------------------------------------------------------------------
\* createView and mount.

\* The options object given to createView: autoObservable may be left out
\* (its value is then not looked at); shadow and template stand for what
\* the destructuring yields (shadow defaults to true).
CreateViewOptions ==
    {o \in [keys : SUBSET {"autoObservable"}, autoObservable : BOOLEAN,
            shadow : BOOLEAN, template : BOOLEAN] :
        "autoObservable" \notin o.keys => o.autoObservable}

\* createView defining the accessors and registering the element before it
\* looks for a render function.
createView_registersFirst(c, o) ==
    [thrown |-> ~hasRender(c) /\ ~o.template,
     VMClass |-> defineAccessors(c),
     customElements |-> customElements \cup {Tag},
     options |-> IF Tag \in customElements THEN options
                 ELSE [shadow |-> o.shadow,
                       autoObservable |-> IF "autoObservable" \in o.keys
                                          THEN o.autoObservable
                                          ELSE globalConfig.autoObservable,
                       template |-> o.template]]

\* createView taking the mode from the global configuration alone.
createView_ignoresOption(c, o) ==
    IF ~hasRender(c) /\ ~o.template
    THEN [thrown |-> TRUE, VMClass |-> c, customElements |-> customElements,
          options |-> options]
    ELSE [thrown |-> FALSE,
          VMClass |-> defineAccessors(c),
          customElements |-> customElements \cup {Tag},
          options |-> IF Tag \in customElements THEN options
                      ELSE [shadow |-> o.shadow,
                            autoObservable |-> globalConfig.autoObservable,
                            template |-> o.template]]

\* createView(VMClass, options): what it leaves of the class, of the
\* registry and of the values the generated element class closes over (the
\* elements of a tag that is registered already keep the class, and with it
\* the values, of the earlier call).
createView(c, o) ==
    IF ~hasRender(c) /\ ~o.template
    THEN [thrown |-> TRUE, VMClass |-> c, customElements |-> customElements,
          options |-> options]
    ELSE [thrown |-> FALSE,
          VMClass |-> defineAccessors(c),
          customElements |-> customElements \cup {Tag},
          options |-> IF Tag \in customElements THEN options
                      ELSE [shadow |-> o.shadow,
                            autoObservable |-> IF "autoObservable" \in o.keys
                                               THEN o.autoObservable
                                               ELSE globalConfig.autoObservable,
                            template |-> o.template]]

\* A GeneratedElement and its ViewModel as their constructors leave them.
NewElement ==
    [shadowRoot |-> FALSE, renderRoot |-> "undefined", renderDisposer |-> "undefined"]

NewViewModel ==
    [initialized |-> FALSE, behaviors |-> <<>>, watchDisposers |-> <<>>,
     mountCleanup |-> "undefined", count |-> 0,
     PROP_VALUES |-> NoStorage, PROP_VALUES_OBSERVABLE |-> FALSE,
     annotations |-> NoAnnotations]

NoReactions ==
    [watches |-> <<>>, renders |-> 0, inBatch |-> 0, stale |-> FALSE,
     propsStale |-> FALSE]

NoneMounted == [b \in BehaviorIds |-> FALSE]

\* document.createElement(tag)
createElement(s) ==
    Emit([s EXCEPT !.el = NewElement, !.vm = NewViewModel, !.mobx = NoReactions,
                   !.beh = NoneMounted],
         "createElement", 0, 0)

\* Object.assign(el, props): each key of props through the setter of the
\* element.
RECURSIVE AssignFrom(_, _, _, _)
AssignFrom(s, props, keys, in) ==
    IF keys = {} THEN s
    ELSE LET key == CHOOSE k \in keys : TRUE
         IN  AssignFrom(Emit(elementSet(s, key, props[key], in), "assign", 0, 0),
                        props, keys \ {key}, in)

\* target.appendChild(el): the platform calls connectedCallback before
\* appendChild returns.
appendChild(s, in) == connectedCallback(Emit(s, "appendChild", 0, 0), in)

\* The container argument of mount: a selector that matches an element of
\* the document ("found") or none ("missing"), an element, or no argument.
Selectors == {"found", "missing"}

querySelector(selector) == IF selector = "found" THEN "matched" ELSE "null"

\* The target with document.body taken for a selector without a match too.
Target_orBody(container) ==
    IF container \in Selectors /\ querySelector(container) # "null"
    THEN querySelector(container)
    ELSE IF container \in Selectors \cup {"undefined"} THEN "document.body"
    ELSE container

\* typeof container === 'string' ? document.querySelector(container)
\*                               : container ?? document.body
Target(container) ==
    IF container \in Selectors THEN querySelector(container)
    ELSE IF container = "undefined" THEN "document.body"
    ELSE container

\* mount appending the element before it assigns the props.
mount_appendsFirst(s, props, container, in) ==
    IF Tag \notin customElements THEN Throw(s, "Error")
    ELSE LET s1 == [createElement(s) EXCEPT !.out.target = Target(container)]
         IN  IF s1.out.target = "null" THEN Throw(s1, "Error")
             ELSE AssignFrom(appendChild(s1, in), props, DOMAIN props, in)

\* mount(tag, props, container)
mount(s, props, container, in) ==
    IF Tag \notin customElements THEN Throw(s, "Error")
    ELSE LET s1 == AssignFrom(createElement(s), props, DOMAIN props, in)
             s2 == [s1 EXCEPT !.out.target = Target(container)]
         IN  IF s2.out.target = "null" THEN Throw(s2, "Error")
             ELSE appendChild(s2, in)

----------------------------------------------------------------------------
\* The state machine.

State == [el |-> el, vm |-> vm, mobx |-> mobx, beh |-> beh, out |-> out]

Begin(op, arg) ==
    [State EXCEPT !.out = [op |-> op, arg |-> arg, key |-> "", via |-> "",
                           value |-> Undefined, result |-> Undefined,
                           config |-> EmptyConfig,
                           log |-> <<>>, sink |-> <<>>, results |-> <<>>,
                           container |-> "", target |-> "",
                           thrown |-> FALSE, err |-> ""]]

\* The start of a handler that reads or writes the prop key.
BeginProp(op, key, via, value) ==
    [Begin(op, 0) EXCEPT !.out.key = key, !.out.via = via, !.out.value = value]

\* An element of the view that shares its ViewModel with the other
\* elements of the view.
SiblingAfter_sharedViewModel(o, r) == [o EXCEPT !.vm = r.vm]

\* What a handler that ran for one element (and ended in r) leaves of
\* another element o of the view: each element made its own ViewModel in
\* its constructor, and the handlers and accessors reach the state through
\* this only, so everything.
SiblingAfter(o, r) == o

Commit(r) ==
    /\ el' = r.el
    /\ vm' = r.vm
    /\ mobx' = r.mobx
    /\ beh' = r.beh
    /\ sibling' = SiblingAfter(sibling, r)
    /\ out' = r.out

\* The statements a hook or method may consist of.
WriteOps == [op : {"write"}, v : Values, delay : {FALSE}, fireImmediately : {FALSE}]

WatchOps == [op : {"watch"}, v : {0}, delay : BOOLEAN, fireImmediately : BOOLEAN]

HookOps == WriteOps \cup WatchOps

\* What the user code a connect runs does: the body of the create hook and
\* whether it throws then, the watch callbacks that throw, what the render
\* function returns, the behaviors whose mount throws, what the mount hook
\* does.
ConnectInputsWith(bodies, creates, cbs, renders, bmounts, mounts) ==
    [createOps : bodies, createThrows : creates, cbThrows : cbs,
     renderResult : renders, bMountThrows : bmounts, mount : mounts]

\* The create hook contains no assignment and no watch.
ConnectInputs ==
    ConnectInputsWith({<<>>}, BOOLEAN, {{}}, RenderResults,
                      SUBSET (1..NumBehaviors), MountResults)

\* The bodies of at most MaxOps statements.
HookBodies == UNION {[1..n -> HookOps] : n \in 0..MaxOps}

WatchesIn(body) == Cardinality({k \in 1..Len(body) : body[k].op = "watch"})

\* A connect whose create hook is one of bodies and does not throw, whose
\* render function returns a template, whose behaviors mount and whose mount
\* hook returns nothing.
HookInputs(bodies) ==
    ConnectInputsWith(bodies, {FALSE}, {{}}, {"template"}, {{}}, {"undefined"})

\* A view whose create hook assigns count and registers watches.
CreateHookInputs ==
    HookInputs({b \in HookBodies : Len(mobx.watches) + WatchesIn(b) <= MaxWatches})

DisconnectInputs ==
    [cleanupThrows : BOOLEAN, unmountThrows : BOOLEAN,
     bUnmountThrows : SUBSET (1..NumBehaviors)]

\* The inputs of a handler that invokes the callbacks of the watches ids
\* and, when renders is set, the render function.
ReactionInputs(ids, renders) ==
    [cbThrows : SUBSET ids,
     renderResult : IF renders THEN RenderResults ELSE {"template"}]

\* The watches whose callback a write of v invokes before it returns.
Invoked(v) ==
    IF v = vm.count THEN {}
    ELSE {i \in 1..Len(mobx.watches) :
             ~mobx.watches[i].disposed /\ ~mobx.watches[i].delay}

\* The configuration, the element and its ViewModel before anything ran.
InitInstance ==
    /\ globalConfig = [autoObservable |-> TRUE, onError |-> NoHandler]
    /\ connected = FALSE
    /\ el = NewElement
    /\ vm = NewViewModel
    /\ mobx = NoReactions
    /\ beh = NoneMounted
    /\ sibling = [connected |-> FALSE, el |-> NewElement, vm |-> NewViewModel,
                  mobx |-> NoReactions, beh |-> NoneMounted]
    /\ out = [op |-> "new", arg |-> 0, key |-> "", via |-> "",
              value |-> Undefined, result |-> Undefined, config |-> EmptyConfig,
              log |-> <<>>, sink |-> <<>>, results |-> <<>>,
              container |-> "", target |-> "", thrown |-> FALSE, err |-> ""]

\* createView(HostClass, {tag, shadow}) has run under the default
\* configuration and an element has been constructed.
Init ==
    /\ VMClass = defineAccessors(HostClass)
    /\ customElements = {Tag}
    /\ created = TRUE
    /\ options \in [shadow : BOOLEAN, autoObservable : {TRUE}, template : {FALSE}]
    /\ InitInstance

\* The platform inserts the element into the document.
ConnectWith(Ins) ==
    /\ created
    /\ ~connected
    /\ connected' = TRUE
    /\ \E in \in Ins : Commit(connectedCallback(Begin("connect", 0), in))
    /\ UNCHANGED <<VMClass, customElements, created, options, globalConfig>>

\* The platform removes the element from the document.
DisconnectWith(Ins) ==
    /\ connected
    /\ connected' = FALSE
    /\ \E in \in Ins : Commit(disconnectedCallback(Begin("disconnect", 0), in))
    /\ UNCHANGED <<VMClass, customElements, created, options, globalConfig>>

Connect == ConnectWith(ConnectInputs)

Disconnect == DisconnectWith(DisconnectInputs)

\* A view whose create hook, mount hook, unmount hook and behaviors do not
\* throw; its mount hook may return a teardown function, which may throw.
QuietConnectInputs ==
    {in \in ConnectInputs :
        ~in.createThrows /\ in.bMountThrows = {} /\ in.mount \in {"undefined", "fn"}}

QuietDisconnectInputs ==
    {in \in DisconnectInputs : ~in.unmountThrows /\ in.bUnmountThrows = {}}

ConnectQuiet == ConnectWith(QuietConnectInputs)

DisconnectQuiet == DisconnectWith(QuietDisconnectInputs)

\* User code calls vm.watch(() => this.count, callback, options), on a view
\* that registers at most n watches.
WatchUpTo(n) ==
    /\ vm.initialized
    /\ Len(mobx.watches) < n
    /\ \E delay \in BOOLEAN, fireImmediately \in BOOLEAN :
       \E in \in ReactionInputs(IF fireImmediately THEN {Len(mobx.watches) + 1} ELSE {},
                                FALSE) :
           Commit(watch(Begin("watch", Len(mobx.watches) + 1),
                        delay, fireImmediately, in))
    /\ UNCHANGED <<VMClass, customElements, created, options, globalConfig, connected>>

Watch == WatchUpTo(MaxWatches)

WatchOnce == WatchUpTo(1)

\* User code calls the disposer an earlier watch returned.
Dispose ==
    /\ \E i \in 1..Len(mobx.watches) : Commit(watchDisposer(Begin("dispose", i), i))
    /\ UNCHANGED <<VMClass, customElements, created, options, globalConfig, connected>>

\* User code writes the observable field (the ViewModel is reachable only
\* through the hooks, methods and templates that run once it is instrumented).
SetState ==
    /\ vm.initialized
    /\ \E v \in Values :
       \E in \in ReactionInputs(Invoked(v), v # vm.count /\ mobx.renders > 0) :
           Commit(writeCount(Begin("set", vm.count), v, in))
    /\ UNCHANGED <<VMClass, customElements, created, options, globalConfig, connected>>

\* The debounce timer of reaction i fires.
TimerFire ==
    /\ \E i \in 1..Len(mobx.watches) :
           /\ mobx.watches[i].isScheduled
           /\ \E in \in ReactionInputs({i}, FALSE) :
                  Commit(reactionRunner(Begin("timer", i), i, in))
    /\ UNCHANGED <<VMClass, customElements, created, options, globalConfig, connected>>

ConnectHook == ConnectWith(CreateHookInputs)

\* The bodies that consist of assignments.
WriteBodies == UNION {[1..n -> WriteOps] : n \in 0..MaxOps}

\* A view whose create hook assigns count.
CreateWritesInputs == HookInputs(WriteBodies)

ConnectWrites == ConnectWith(CreateWritesInputs)

\* User code calls increment().
Increment ==
    /\ vm.initialized
    /\ vm.count < MaxVal
    /\ \E in \in ReactionInputs({}, FALSE) :
           Commit(increment(Begin("increment", vm.count), in))
    /\ UNCHANGED <<VMClass, customElements, created, options, globalConfig, connected>>

\* User code calls a method that makes one or more assignments to count.
CallAction ==
    /\ vm.initialized
    /\ \E body \in WriteBodies \ {<<>>} :
       \E in \in ReactionInputs({}, FALSE) :
           Commit(actionBound(Begin("action", vm.count), body, in))
    /\ UNCHANGED <<VMClass, customElements, created, options, globalConfig, connected>>

\* User code or a parent template assigns a prop.
SetProp ==
    /\ \E via \in Vias, key \in PropKeys, value \in PropInputs :
       \E in \in ReactionInputs({}, mobx.renders > 0) :
           Commit(IF via = "element"
                  THEN elementSet(BeginProp("setProp", key, via, value), key, value, in)
                  ELSE propSet(BeginProp("setProp", key, via, value), key, value, in))
    /\ UNCHANGED <<VMClass, customElements, created, options, globalConfig, connected>>

\* User code reads a prop.
GetProp ==
    /\ \E via \in Vias, key \in PropKeys :
           Commit(IF via = "element"
                  THEN elementGet(BeginProp("getProp", key, via, Undefined), key)
                  ELSE propGet(BeginProp("getProp", key, via, Undefined), key))
    /\ UNCHANGED <<VMClass, customElements, created, options, globalConfig, connected>>

\* User code calls configure(c) with one of the objects of Cs.
ConfigureWith(Cs) ==
    /\ \E c \in Cs :
           /\ globalConfig' = configure(c)
           /\ out' = [Begin("configure", 0).out EXCEPT !.config = c]
    /\ UNCHANGED <<VMClass, customElements, created, options, connected, el, vm, mobx, beh,
                   sibling>>

\* User code calls createView(VMClass, o) with one of the options of Os.
CreateViewWith(Os) ==
    /\ \E o \in Os :
           LET r == createView(VMClass, o)
           IN  /\ VMClass' = r.VMClass
               /\ customElements' = r.customElements
               /\ options' = r.options
               /\ out' = [Begin("createView", o).out EXCEPT
                              !.thrown = r.thrown,
                              !.err = IF r.thrown THEN "Error" ELSE ""]
    /\ UNCHANGED <<created, globalConfig, connected, el, vm, mobx, beh, sibling>>

\* A view rendered into the light DOM.
CreateView == CreateViewWith({o \in CreateViewOptions : ~o.shadow})

\* A view rendered by a template into the light DOM.
CreateViewPlain ==
    CreateViewWith({o \in CreateViewOptions : ~o.shadow /\ o.template})

\* The props objects given to mount, and what its container argument finds.
PropsInputs == UNION {[S -> PropInputs] : S \in SUBSET PropKeys}

\* The props object without keys.
NoProps == [k \in {} |-> Undefined]

Containers == Selectors

\* Every kind of container argument: a selector, an element, none.
ContainerArgs == Selectors \cup {"element", "undefined"}

\* The create hooks that read at most one prop.
ReadBodies == {<<>>} \cup {<<[op |-> "read", key |-> k]>> : k \in PropKeys}

\* User code calls mount(Tag, props, container); the model follows the
\* element it makes, once the element followed before is out of the
\* document.
MountWith(Ps, Cs, Ins) ==
    /\ ~connected
    /\ \E props \in Ps, container \in Cs :
       \E in \in Ins :
           /\ Commit(mount([Begin("mount", props) EXCEPT !.out.container = container],
                            props, container, in))
           /\ connected' = (Tag \in customElements /\ Target(container) # "null")
    /\ created' = (created \/ Tag \in customElements)
    /\ UNCHANGED <<VMClass, customElements, options, globalConfig>>

Mount == MountWith(PropsInputs, Containers, HookInputs(ReadBodies))

\* mount(Tag) of a view with an empty create hook.
MountPlain == MountWith({NoProps}, {"found"}, HookInputs({<<>>}))

\* mount(Tag, props, container) with each kind of container argument.
MountTo ==
    MountWith({NoProps} \cup {[k \in {"title"} |-> Number(n)] : n \in Values},
              ContainerArgs,
              HookInputs({<<>>}))

\* The names an instance finds as a method on its prototype chain: no own
\* field has the name, and the nearest prototype that has it holds a
\* method.
RECURSIVE MethodFrom(_, _, _)
MethodFrom(c, key, l) ==
    IF l > Len(c.chain) THEN FALSE
    ELSE IF \E d \in c.chain[l] : d.key = key
    THEN \E d \in c.chain[l] : d.key = key /\ d.kind = "method"
    ELSE MethodFrom(c, key, l + 1)

Methods(c) ==
    {key \in UNION {{d.key : d \in c.chain[l]} : l \in 1..Len(c.chain)} :
        ~HasField(c, key) /\ MethodFrom(c, key, 1)}

\* User code takes a method off the instance and calls it on its own
\* (an event handler in a template: @click=${this.toggle}).
CallDetached ==
    /\ vm.initialized
    /\ \E key \in Methods(VMClass) :
           Commit(callDetached(BeginProp("callDetached", key, "vm", Undefined), key))
    /\ UNCHANGED <<VMClass, customElements, created, options, globalConfig, connected>>

\* What the render function does in a run: it may throw.
RenderOutcomes == RenderResults \cup {"throw"}

ConnectRender ==
    ConnectWith(ConnectInputsWith({<<>>}, BOOLEAN, {{}}, RenderOutcomes,
                                  SUBSET (1..NumBehaviors), MountResults))

\* A write of the observable field that re-runs a render function which
\* may throw.
SetStateRender ==
    /\ vm.initialized
    /\ mobx.renders > 0
    /\ \E v \in Values \ {vm.count} :
       \E in \in [cbThrows : {{}}, renderResult : RenderOutcomes] :
           Commit(writeCount(Begin("set", vm.count), v, in))
    /\ UNCHANGED <<VMClass, customElements, created, options, globalConfig, connected>>

Configure == ConfigureWith(MantleConfig)

\* configure({}) and configure({autoObservable}).
ConfigureMode == ConfigureWith({c \in MantleConfig : "onError" \notin c.keys})

\* connectedCallback of a view with an empty create hook and quiet hooks.
ConnectPlain == ConnectWith(HookInputs({<<>>}))

\* A behavior instance as the value of a prop.
BehaviorValue(b) == [t |-> "behavior", v |-> b, observable |-> FALSE]

\* User code stores a behavior (or a plain value, 0) in the own field count
\* of the instance, before or after the instance is instrumented; the
\* fields of VMClass are the own fields of the instance the model follows.
StoreBehavior ==
    /\ \E b \in BehaviorIds \cup {0} :
          /\ VMClass.fields[1].behavior # b
          /\ VMClass' = [VMClass EXCEPT !.fields[1].behavior = b]
          /\ Commit(BeginProp("setField", VMClass.fields[1].key, "vm", BehaviorValue(b)))
    /\ UNCHANGED <<customElements, created, options, globalConfig, connected>>

\* User code assigns a behavior to a declared prop.
SetPropBehavior ==
    /\ \E via \in Vias, key \in PropKeys, b \in BehaviorIds :
       \E in \in ReactionInputs({}, mobx.renders > 0) :
           Commit(IF via = "element"
                  THEN elementSet(BeginProp("setProp", key, via, BehaviorValue(b)),
                                  key, BehaviorValue(b), in)
                  ELSE propSet(BeginProp("setProp", key, via, BehaviorValue(b)),
                               key, BehaviorValue(b), in))
    /\ UNCHANGED <<VMClass, customElements, created, options, globalConfig, connected>>

\* configure({onError}) with a handler that throws.
ConfigureThrowing ==
    ConfigureWith({[keys |-> {"onError"}, autoObservable |-> TRUE,
                    onError |-> ThrowingHandler]})

\* The view classes of a hierarchy: a base class and two classes that
\* extend it.
Ctors == {"Base", "SubA", "SubB"}

SuperOf(ctor) == IF ctor = "Base" THEN "ViewModel" ELSE "Base"

\* The constructors before any @property() ran: none has a PROPERTIES map.
\* own tells which constructors have an own PROPERTIES map, maps what the
\* map a constructor made holds; declared records which class the
\* decorator was written in, defined the classes whose definition began.
NoStatics ==
    [own |-> [c \in Ctors |-> FALSE], maps |-> [c \in Ctors |-> {}],
     declared |-> [c \in Ctors |-> {}], defined |-> {}]

\* ctor[PROPERTIES]: the own map of the constructor, or the one it inherits
\* from the constructor it extends; the constructor that made the map, or
\* "none".
HolderOf(statics, ctor) ==
    IF ctor = "ViewModel" THEN "none"
    ELSE IF statics.own[ctor] THEN ctor
    ELSE IF SuperOf(ctor) = "ViewModel" THEN "none"
    ELSE IF statics.own[SuperOf(ctor)] THEN SuperOf(ctor)
    ELSE "none"

\* getPropertyDeclarations(ctor) for a constructor of the hierarchy
PropertiesOf(statics, ctor) ==
    IF HolderOf(statics, ctor) = "none" THEN {}
    ELSE statics.maps[HolderOf(statics, ctor)]

\* The decorator @property() on the field key of the class ctor.
property(statics, ctor, key) ==
    LET s1 == IF HolderOf(statics, ctor) = "none"
              THEN [statics EXCEPT !.own[ctor] = TRUE]
              ELSE statics
    IN  [s1 EXCEPT !.maps[HolderOf(s1, ctor)] = @ \cup {key},
                   !.declared[ctor] = @ \cup {key},
                   !.defined = @ \cup {ctor}]

\* The base class of the hierarchy as createView sees it.
BaseClass(statics) ==
    [fields |-> <<>>, chain |-> <<{Descriptor("render", "method", FALSE)}>>,
     PROPERTIES |-> PropertiesOf(statics, "Base"), statics |-> statics]

\* A class definition evaluates the decorator of one of its props.  The
\* base class is defined before the classes that extend it.
Declare ==
    /\ \E ctor \in Ctors, key \in PropKeys :
          /\ key \notin VMClass.statics.declared[ctor]
          /\ ctor = "Base" => VMClass.statics.defined \subseteq {"Base"}
          /\ VMClass' = [VMClass EXCEPT
                            !.statics = property(@, ctor, key),
                            !.PROPERTIES =
                                PropertiesOf(property(VMClass.statics, ctor, key), "Base")]
          /\ Commit(BeginProp("property", key, ctor, Undefined))
    /\ UNCHANGED <<customElements, created, options, globalConfig, connected>>

\* createView(Base, {tag, shadow: false})
CreateViewBase ==
    CreateViewWith({o \in CreateViewOptions :
                       ~o.shadow /\ ~o.template /\ o.keys = {}})

\* The inputs of a handler whose render function returns a template and
\* whose callbacks return.
PlainInputs == [cbThrows : {{}}, renderResult : {"template"}]

\* connectedCallback of a view whose mount hook returns a teardown.
ConnectTeardown ==
    ConnectWith(ConnectInputsWith({<<>>}, {FALSE}, {{}}, {"template"}, {{}}, {"fn"}))

\* disconnectedCallback of a view whose hooks and teardown return.
DisconnectPlain ==
    DisconnectWith([cleanupThrows : {FALSE}, unmountThrows : {FALSE},
                    bUnmountThrows : {{}}])

\* el.title = value
SetTitle ==
    /\ \E n \in Values : \E in \in PlainInputs :
           Commit(elementSet(BeginProp("setProp", "title", "element", Number(n)),
                             "title", Number(n), in))
    /\ UNCHANGED <<VMClass, customElements, created, options, globalConfig, connected>>

\* this.watch(expr, callback) of an instance that has no watch yet.
WatchPlain ==
    /\ vm.initialized
    /\ mobx.watches = <<>>
    /\ \E in \in PlainInputs :
           Commit(watch(Begin("watch", 1), FALSE, FALSE, in))
    /\ UNCHANGED <<VMClass, customElements, created, options, globalConfig, connected>>

\* User code turns to the other element of the view: the handlers that
\* follow run for it.
Switch ==
    /\ connected' = sibling.connected
    /\ el' = sibling.el
    /\ vm' = sibling.vm
    /\ mobx' = sibling.mobx
    /\ beh' = sibling.beh
    /\ sibling' = [connected |-> connected, el |-> el, vm |-> vm, mobx |-> mobx,
                   beh |-> beh]
    /\ out' = Begin("switch", 0).out
    /\ UNCHANGED <<VMClass, customElements, created, options, globalConfig>>

Next ==
    \/ ConfigureMode
    \/ Switch
    \/ CreateViewBase
    \/ ConfigureThrowing
    \/ ConnectPlain
    \/ MountTo
    \/ StoreBehavior
    \/ SetPropBehavior
    \/ CreateView
    \/ CreateViewPlain
    \/ Mount
    \/ MountPlain
    \/ CallDetached
    \/ ConnectRender
    \/ SetStateRender
    \/ Connect
    \/ ConnectHook
    \/ ConnectWrites
    \/ Disconnect
    \/ Watch
    \/ Dispose
    \/ SetState
    \/ Increment
    \/ CallAction
    \/ TimerFire
    \/ SetProp
    \/ GetProp
    \/ Configure

\* The whole system.
Spec == Init /\ [][Next]_vars

\* The behaviors of a host: the ones its fields hold when it is
\* instrumented, the ones stored later, the ones handed in as props.
NextBehaviors ==
    \/ ConnectPlain
    \/ DisconnectQuiet
    \/ StoreBehavior
    \/ SetPropBehavior

SpecBehaviors == Init /\ [][NextBehaviors]_vars

\* The lifecycle of a view whose error handler may throw.
NextSink ==
    \/ ConfigureThrowing
    \/ Connect
    \/ Disconnect

SpecSink == Init /\ [][NextSink]_vars

\* The declaration of props in a hierarchy of view classes.
InitDeclare ==
    /\ VMClass = BaseClass(NoStatics)
    /\ customElements = {}
    /\ created = FALSE
    /\ options = [shadow |-> TRUE, autoObservable |-> TRUE, template |-> FALSE]
    /\ InitInstance

NextDeclare ==
    \/ Declare
    \/ CreateViewBase
    \/ MountPlain
    \/ DisconnectQuiet

SpecDeclare == InitDeclare /\ [][NextDeclare]_vars

\* Two elements of one view: their props, watches, connects and
\* disconnects.
NextTwo ==
    \/ Switch
    \/ ConnectTeardown
    \/ DisconnectPlain
    \/ SetTitle
    \/ WatchPlain

SpecTwo == Init /\ [][NextTwo]_vars

\* The lifecycle of a view that registers no watch.
NextLifecycle ==
    \/ Connect
    \/ Disconnect
    \/ SetState

SpecLifecycle == Init /\ [][NextLifecycle]_vars

\* The watch facility of a view with quiet hooks.
NextWatch ==
    \/ ConnectQuiet
    \/ DisconnectQuiet
    \/ Watch
    \/ Dispose
    \/ SetState
    \/ TimerFire

SpecWatch == Init /\ [][NextWatch]_vars

\* A view that registers its watches in its create hook.
NextCreateHook ==
    \/ ConnectHook
    \/ DisconnectQuiet
    \/ SetState
    \/ TimerFire

SpecCreateHook == Init /\ [][NextCreateHook]_vars

\* A view whose create hook and methods assign state.
NextAction ==
    \/ ConnectWrites
    \/ DisconnectQuiet
    \/ Watch
    \/ Increment
    \/ CallAction
    \/ TimerFire

SpecAction == Init /\ [][NextAction]_vars

\* The error sink and its configuration.
NextConfig ==
    \/ Configure
    \/ Connect
    \/ Disconnect
    \/ WatchOnce

SpecConfig == Init /\ [][NextConfig]_vars

\* The props of a view with quiet hooks.
NextProps ==
    \/ ConnectQuiet
    \/ DisconnectQuiet
    \/ SetProp
    \/ GetProp

SpecProps == Init /\ [][NextProps]_vars

\* No createView has run yet: no tag is registered and no element exists
\* (options is not looked at before a createView sets it).
InitSetup ==
    /\ VMClass \in {[HostClass EXCEPT !.chain[1] =
                        @ \cup {Descriptor("completedCount", "getter", FALSE)}],
                    [HostClass EXCEPT !.chain[1] = {d \in @ : d.key # "render"}]}
    /\ customElements = {}
    /\ created = FALSE
    /\ options = [shadow |-> TRUE, autoObservable |-> TRUE, template |-> FALSE]
    /\ InitInstance

\* Setting up a view and mounting its elements.
NextSetup ==
    \/ ConfigureMode
    \/ CreateView
    \/ Mount
    \/ DisconnectQuiet

SpecSetup == InitSetup /\ [][NextSetup]_vars

\* mount and its container argument, before and after createView.
NextMount ==
    \/ CreateView
    \/ MountTo
    \/ DisconnectQuiet

SpecMount == InitSetup /\ [][NextMount]_vars

InitClassify ==
    /\ VMClass \in Classes \cup {HostClass}
    /\ customElements = {}
    /\ created = FALSE
    /\ options = [shadow |-> TRUE, autoObservable |-> TRUE, template |-> FALSE]
    /\ InitInstance

\* The instrumentation of the instances of a class.
NextClassify ==
    \/ CreateViewPlain
    \/ MountPlain
    \/ DisconnectQuiet
    \/ CallDetached

SpecClassify == InitClassify /\ [][NextClassify]_vars

\* The lifecycle of a view whose render function may throw.
NextRender ==
    \/ ConnectRender
    \/ Disconnect
    \/ SetStateRender

SpecRender == Init /\ [][NextRender]_vars

----------------------------------------------------------------------------
\* Reading the record of the last handler.

Has(e) == \E k \in 1..Len(out.log) : out.log[k].ev = e

HasAt(e, i) == \E k \in 1..Len(out.log) : out.log[k].ev = e /\ out.log[k].id = i

Times(e) == Cardinality({k \in 1..Len(out.log) : out.log[k].ev = e})

Names(log) == [k \in 1..Len(log) |-> log[k].ev]

Repeat(e, n) == [k \in 1..n |-> e]

Routed(phase, fromBehavior) ==
    Cardinality({k \in 1..Len(out.sink) :
        out.sink[k].phase = phase /\ out.sink[k].isBehavior = fromBehavior})

ConnectSteps == {"instrument", "onCreate", "autorun", "render", "mountBehavior", "onMount"}

DisconnectSteps ==
    {"stopRender", "teardown", "onUnmount", "disposeWatchers", "unmountBehavior"}

StepsOf(log, steps) == Names(SelectSeq(log, LAMBDA x : x.ev \in steps))

----------------------------------------------------------------------------
\* C1: every disconnect runs, in this order, stop render reaction, the
\* captured teardown callback, the unmount hook, disposal of the watch
\* subscriptions and the unmount of every behavior, whichever of them throw.
C1_DisconnectRunsAllSteps ==
    out.op = "disconnect" =>
        StepsOf(out.log, DisconnectSteps) =
            <<"stopRender">>
            \o (IF vm.mountCleanup = "fn" THEN <<"teardown">> ELSE <<>>)
            \o <<"onUnmount", "disposeWatchers">>
            \o Repeat("unmountBehavior", Len(vm.behaviors))

\* C2: a connect that gets past the creation of its render root runs
\* exactly: instrumentation (only when the instance is not instrumented
\* yet), the create hook, the render reaction with its first render, the
\* mount of every behavior, the mount hook, in this order; a connect that
\* does not get past it runs none of them.  So no render precedes the create
\* hook and no behavior is mounted before the create hook or after the mount
\* hook.
C2_ConnectOrder ==
    [][out'.op = "connect" =>
        StepsOf(out'.log, ConnectSteps) =
            IF out'.thrown THEN <<>>
            ELSE (IF vm.initialized THEN <<>> ELSE <<"instrument">>)
                 \o <<"onCreate", "autorun", "render">>
                 \o Repeat("mountBehavior", Len(vm'.behaviors))
                 \o <<"onMount">>]_vars

C2_Witness ==
    /\ out.op = "connect"
    /\ ~out.thrown
    /\ Has("instrument")
    /\ Times("mountBehavior") = NumBehaviors
    /\ Has("onMount")

\* C3: in a connect whose create hook throws, the error reaches the sink
\* once, as phase onCreate of the view, not of a behavior, and the render
\* reaction is established, every behavior is mounted and the mount hook
\* runs; in a connect whose mount hook throws, the error reaches the sink
\* once as phase onMount and no exception leaves connect.
C3_HookErrorsRouted ==
    out.op = "connect" =>
        /\ Has("onCreate.throws") =>
              /\ Routed("onCreate", FALSE) = 1
              /\ \E k \in 1..Len(out.sink) :
                     /\ out.sink[k].phase = "onCreate"
                     /\ out.sink[k].error = "createError"
                     /\ out.sink[k].name = ViewName
                     /\ ~out.sink[k].isBehavior
              /\ Has("autorun")
              /\ el.renderDisposer = "live"
              /\ \A k \in 1..Len(vm.behaviors) : HasAt("mountBehavior", vm.behaviors[k])
              /\ Has("onMount")
        /\ Has("onMount.throws") =>
              /\ Routed("onMount", FALSE) = 1
              /\ \E k \in 1..Len(out.sink) :
                     /\ out.sink[k].phase = "onMount"
                     /\ out.sink[k].error = "mountError"
                     /\ out.sink[k].name = ViewName
                     /\ ~out.sink[k].isBehavior
              /\ ~out.thrown

C3_Witness ==
    /\ out.op = "connect"
    /\ Has("onCreate.throws")
    /\ Has("onMount.throws")
    /\ Len(out.sink) = 2

\* C4: when the mount hook of a behavior throws during connect, each such
\* error is routed as a behavior's, every behavior of the host is still
\* handed to mountBehavior, every behavior whose hook did not throw is
\* mounted, and the host's mount hook runs; when the unmount hook of a
\* behavior throws during disconnect, each such error is routed as a
\* behavior's and every behavior is still handed to unmountBehavior.
C4_BehaviorFailuresIsolated ==
    /\ (out.op = "connect" /\ Has("mountBehavior.throws")) =>
          /\ Routed("onMount", TRUE) = Times("mountBehavior.throws")
          /\ \A k \in 1..Len(vm.behaviors) :
                 /\ HasAt("mountBehavior", vm.behaviors[k])
                 /\ ~HasAt("mountBehavior.throws", vm.behaviors[k]) => beh[vm.behaviors[k]]
          /\ Has("onMount")
    /\ (out.op = "disconnect" /\ Has("unmountBehavior.throws")) =>
          /\ Routed("onUnmount", TRUE) = Times("unmountBehavior.throws")
          /\ \A k \in 1..Len(vm.behaviors) :
                 /\ HasAt("unmountBehavior", vm.behaviors[k])
                 /\ ~HasAt("unmountBehavior.throws", vm.behaviors[k]) => ~beh[vm.behaviors[k]]

C4_Witness ==
    /\ out.op = "connect"
    /\ Len(vm.behaviors) >= 2
    /\ HasAt("mountBehavior.throws", vm.behaviors[1])
    /\ ~HasAt("mountBehavior.throws", vm.behaviors[2])
    /\ beh[vm.behaviors[2]]
    /\ Has("onMount")

\* C5: every connect, the first and every later one, runs the create hook,
\* establishes the render reaction, mounts the behaviors and runs the mount
\* hook, with shadow true and with shadow false.
C5_EveryConnectRunsLifecycle ==
    out.op = "connect" =>
        /\ Has("onCreate")
        /\ el.renderDisposer = "live"
        /\ \A k \in 1..Len(vm.behaviors) : HasAt("mountBehavior", vm.behaviors[k])
        /\ Has("onMount")

\* C6: when the mount hook returned a promise, nothing is kept as teardown
\* callback: the next disconnect invokes no teardown and no exception
\* leaves it.
C6_PromiseIsNotATeardown ==
    [][(out.op = "connect" /\ Has("asyncHookDiagnostic") /\ out'.op = "disconnect") =>
          /\ vm.mountCleanup = "undefined"
          /\ ~out'.thrown
          /\ \A k \in 1..Len(out'.log) : out'.log[k].ev # "teardown"]_vars

\* C7: after a disconnect the subscription list is empty and every watch
\* registered so far is disposed, and the writes and timers that follow the
\* disconnect invoke no watch callback.
C7_DisconnectDisposesWatches ==
    [][/\ out'.op = "disconnect" =>
              /\ vm'.watchDisposers = <<>>
              /\ \A i \in 1..Len(mobx'.watches) : mobx'.watches[i].disposed
       /\ (out.op = "disconnect" /\ out'.op \in {"set", "timer"}) =>
              \A k \in 1..Len(out'.log) : out'.log[k].ev # "watchcb"]_vars

\* C8: a call of the disposer of watch i, the first and every later one,
\* leaves reaction i disposed, removes i and nothing else from the
\* subscription list, changes no other reaction, invokes no callback and
\* raises nothing.
C8_DisposerRemovesOnlyItsOwn ==
    [][out'.op = "dispose" =>
          /\ mobx'.watches[out'.arg].disposed
          /\ vm'.watchDisposers = SelectSeq(vm.watchDisposers, LAMBDA x : x # out'.arg)
          /\ \A j \in 1..Len(mobx.watches) :
                 j # out'.arg => mobx'.watches[j] = mobx.watches[j]
          /\ Len(mobx'.watches) = Len(mobx.watches)
          /\ Names(out'.log) = <<"dispose">>
          /\ ~out'.thrown]_vars

\* A second call of a disposer while another subscription is in the list.
C8_Witness ==
    /\ out.op = "dispose"
    /\ out.log = <<Ev("dispose", out.arg, 1)>>
    /\ vm.watchDisposers # <<>>
    /\ \E k \in 1..Len(vm.watchDisposers) :
           ~mobx.watches[vm.watchDisposers[k]].disposed

\* C9: a callback is only ever invoked for a subscription that is in the
\* list, that is, not disposed by its disposer or by unmount; so the timer
\* of a debounced watch that fires after the disposal invokes nothing.
C9_NoCallbackAfterDisposal ==
    \A k \in 1..Len(out.log) :
        out.log[k].ev = "watchcb" =>
            \E j \in 1..Len(vm.watchDisposers) : vm.watchDisposers[j] = out.log[k].id

\* The debounce timer of a watch fires after the watch was disposed.
C9_Witness ==
    /\ out.op = "timer"
    /\ mobx.watches[out.arg].delay
    /\ mobx.watches[out.arg].disposed
    /\ \A j \in 1..Len(vm.watchDisposers) : vm.watchDisposers[j] # out.arg
    /\ out.log = <<>>

\* C10: every throw of a watch callback is passed to the sink as phase
\* watch of the view, leaves the handler that caused it without an
\* exception and leaves the subscription live and in the list; and every
\* write that changes the watched value invokes the callback of every live
\* watch without delay with the new value.
C10_WatchErrorsRouted ==
    /\ Routed("watch", FALSE) = Times("watchcb.throws")
    /\ \A k \in 1..Len(out.sink) :
           out.sink[k].phase = "watch" =>
               out.sink[k].error = "watchError" /\ out.sink[k].name = ViewName
    /\ \A k \in 1..Len(out.log) :
           out.log[k].ev = "watchcb.throws" =>
               /\ ~out.thrown
               /\ ~mobx.watches[out.log[k].id].disposed
               /\ \E j \in 1..Len(vm.watchDisposers) :
                      vm.watchDisposers[j] = out.log[k].id
    /\ (out.op = "set" /\ out.arg # vm.count) =>
           \A i \in 1..Len(mobx.watches) :
               (~mobx.watches[i].disposed /\ ~mobx.watches[i].delay) =>
                   \E k \in 1..Len(out.log) : out.log[k] = Ev("watchcb", i, vm.count)

\* A write invokes two callbacks, the first of which throws.
C10_Witness ==
    /\ out.op = "set"
    /\ \E k \in 1..Len(out.log) :
           /\ out.log[k] = Ev("watchcb.throws", 1, vm.count)
           /\ \E m \in (k + 1)..Len(out.log) : out.log[m] = Ev("watchcb", 2, vm.count)
    /\ Len(out.sink) >= 1

\* C11: a watch call with fireImmediately invokes the callback of the new
\* watch exactly once before it returns, first thing, with the value the
\* expression has at the call; a watch call without fireImmediately invokes
\* no callback before it returns.
C11_FiresInsideWatchCall ==
    \A k \in 1..Len(out.log) :
        /\ out.log[k].ev = "watch.fireImmediately" =>
               /\ k + 2 <= Len(out.log)
               /\ out.log[k + 1] = Ev("watchcb", out.log[k].id, out.log[k].val)
               /\ \E m \in (k + 2)..Len(out.log) :
                      /\ out.log[m] = Ev("watch.returns", out.log[k].id, 0)
                      /\ \A j \in (k + 2)..(m - 1) : out.log[j].ev # "watchcb"
        /\ out.log[k].ev = "watch" =>
               /\ k + 1 <= Len(out.log)
               /\ out.log[k + 1] = Ev("watch.returns", out.log[k].id, 0)

\* C12 as claimed: whenever the debounce timer of a live watch fires, which
\* it does after one or more writes that changed the watched expression, the
\* callback is invoked exactly once, with the value of the last write.
C12_OneCallbackPerDelay ==
    (out.op = "timer" /\ ~mobx.watches[out.arg].disposed) =>
        SelectSeq(out.log, LAMBDA x : x.ev = "watchcb")
            = <<Ev("watchcb", out.arg, vm.count)>>

\* C12 as amended: a write invokes no callback of a debounced watch; when
\* the timer of a debounced watch fires, the callback is invoked at most
\* once, exactly once with the value of the last write when the watch is
\* live and that value is not the one the reaction saw last, and not at all
\* when the writes brought the expression back to it; no timer is left
\* pending.
C12_DebounceCoalesces ==
    [][/\ out'.op = "timer" =>
              /\ mobx.watches[out'.arg].delay
              /\ ~mobx'.watches[out'.arg].isScheduled
              /\ SelectSeq(out'.log, LAMBDA x : x.ev = "watchcb")
                     = IF /\ ~mobx.watches[out'.arg].disposed
                          /\ mobx.watches[out'.arg].value # vm.count
                       THEN <<Ev("watchcb", out'.arg, vm.count)>>
                       ELSE <<>>
              /\ vm'.count = vm.count
       /\ out'.op = "set" =>
              \A k \in 1..Len(out'.log) :
                  out'.log[k].ev = "watchcb" => ~mobx.watches[out'.log[k].id].delay]_vars

\* The timer of a live debounced watch fires and the callback gets the
\* current value.
C12_Witness ==
    /\ out.op = "timer"
    /\ mobx.watches[out.arg].delay
    /\ ~mobx.watches[out.arg].disposed
    /\ \E k \in 1..Len(out.log) : out.log[k] = Ev("watchcb", out.arg, vm.count)

\* C13 as claimed: a prop written before the first connect reads as the
\* value written, through both accessors, and the first connect leaves what
\* both accessors return for every prop as it was.
C13_SameValueAfterConnect ==
    [][/\ (out'.op = "setProp" /\ ~vm.initialized) =>
              /\ propGet(State', out'.key).out.result = out'.value
              /\ elementGet(State', out'.key).out.result = out'.value
       /\ (out'.op = "connect" /\ ~vm.initialized) =>
              \A key \in PropKeys :
                  /\ propGet(State', key).out.result = propGet(State, key).out.result
                  /\ elementGet(State', key).out.result
                         = propGet(State, key).out.result]_vars

\* C13 as amended: a prop written before the first connect reads as the
\* value written, through both accessors; after the first connect both
\* accessors return, for every prop, the value they returned before it if
\* that is not an array, and an observable copy of it with the same
\* contents if it is.
C13_ValuePreservedByConnect ==
    [][/\ (out'.op = "setProp" /\ ~vm.initialized) =>
              /\ propGet(State', out'.key).out.result = out'.value
              /\ elementGet(State', out'.key).out.result = out'.value
       /\ (out'.op = "connect" /\ ~vm.initialized) =>
              \A key \in PropKeys :
                  /\ propGet(State', key).out.result
                         = deepEnhancer(propGet(State, key).out.result)
                  /\ elementGet(State', key).out.result
                         = deepEnhancer(propGet(State, key).out.result)]_vars

\* The first connect of a view one prop of which was given a number and
\* the other an array.
C13_Witness ==
    /\ out.op = "connect"
    /\ Has("instrument")
    /\ propGet(State, "title").out.result.t = "number"
    /\ propGet(State, "items").out.result.t = "array"
    /\ propGet(State, "items").out.result.observable

\* C14: a prop write on an instrumented instance is made on the observable
\* storage, inside a transaction, and a write of a new array makes the live
\* render reaction, which reads the prop, run again.
C14_PropWritesAreObservable ==
    (out.op = "setProp" /\ vm.initialized) =>
        /\ vm.PROP_VALUES.kind = "observable"
        /\ Has("runInAction")
        /\ (mobx.renders > 0 /\ out.value.t = "array") => Has("render")

\* C15: reading a prop whose key the storage does not have, or while there
\* is no storage, returns undefined and raises nothing, on an instrumented
\* instance and on one that is not.
C15_UnsetPropIsUndefined ==
    (/\ out.op = "getProp"
     /\ \/ vm.PROP_VALUES.kind = "undefined"
        \/ vm.PROP_VALUES.values[out.key] = Absent) =>
        /\ ~out.thrown
        /\ out.result = Undefined

\* A prop is read on an instrumented instance that has no storage.
C15_Witness ==
    /\ out.op = "getProp"
    /\ vm.initialized
    /\ vm.PROP_VALUES.kind = "undefined"
    /\ out.result = Undefined

\* C16: a connect (whose create hook runs in a transaction) and a call of
\* an action method invoke the callback of each watch at most once, with the
\* value count has when the transaction ends, whatever the number of
\* assignments; a call of an action method runs the render function at most
\* once, with that value; a call of increment() on a connected element adds
\* one to count and runs the render function exactly once.
C16_OneNotificationPerTransaction ==
    /\ out.op \in {"connect", "increment", "action"} =>
           \A i \in 1..Len(mobx.watches) :
               /\ Cardinality({k \in 1..Len(out.log) :
                      out.log[k].ev = "watchcb" /\ out.log[k].id = i}) <= 1
               /\ \A k \in 1..Len(out.log) :
                      (out.log[k].ev = "watchcb" /\ out.log[k].id = i) =>
                          out.log[k].val = vm.count
    /\ out.op \in {"increment", "action"} =>
           /\ Times("render") <= 1
           /\ \A k \in 1..Len(out.log) :
                  out.log[k].ev = "render" => out.log[k].val = vm.count
    /\ out.op = "increment" =>
           /\ vm.count = out.arg + 1
           /\ mobx.renders > 0 => Times("render") = 1

\* increment() on a connected element rendered the new count once.
C16_Witness ==
    /\ out.op = "increment"
    /\ connected
    /\ SelectSeq(out.log, LAMBDA x : x.ev = "render") = <<Ev("render", 0, out.arg + 1)>>

C18_RenderLiveWhileConnected ==
    /\ mobx.renders <= 1
    /\ (mobx.renders = 1) <=> connected
    /\ (el.renderDisposer = "live") <=> connected
    /\ (out.op \in {"set", "setProp"} /\ ~connected) =>
           ~Has("render") /\ ~Has("renderSink")

\* C19: configure(c) sets every key c has to the value c gives it and
\* leaves every other key of the configuration as it was; so a handler set
\* by an earlier call is still the handler after configure({autoObservable}).
C19_ConfigureMerges ==
    [][out'.op = "configure" =>
          /\ globalConfig'.onError =
                 IF "onError" \in out'.config.keys
                 THEN out'.config.onError ELSE globalConfig.onError
          /\ globalConfig'.autoObservable =
                 IF "autoObservable" \in out'.config.keys
                 THEN out'.config.autoObservable ELSE globalConfig.autoObservable
          /\ <<VMClass, customElements, created, options, connected, el, vm, mobx, beh>>'
                 = <<VMClass, customElements, created, options, connected, el, vm, mobx, beh>>]_vars

\* configure({autoObservable: false}) left the handler installed before it.
C19_Witness ==
    /\ out.op = "configure"
    /\ out.config.keys = {"autoObservable"}
    /\ ~out.config.autoObservable
    /\ globalConfig.onError = "h1"
    /\ ~globalConfig.autoObservable

\* The errors the hooks of a handler threw, in the order they were thrown.
ThrownIn(log) ==
    LET e == [x \in {"onCreate.throws", "onMount.throws", "onUnmount.throws",
                      "watchcb.throws", "mountBehavior.throws",
                      "unmountBehavior.throws"} |->
                 CASE x = "onCreate.throws" -> <<"createError", "onCreate", FALSE>>
                   [] x = "onMount.throws" -> <<"mountError", "onMount", FALSE>>
                   [] x = "onUnmount.throws" -> <<"unmountError", "onUnmount", FALSE>>
                   [] x = "watchcb.throws" -> <<"watchError", "watch", FALSE>>
                   [] x = "mountBehavior.throws" -> <<"behaviorMountError", "onMount", TRUE>>
                   [] OTHER -> <<"behaviorUnmountError", "onUnmount", TRUE>>]
        thrown == SelectSeq(log, LAMBDA x : x.ev \in DOMAIN e)
    IN  [k \in 1..Len(thrown) |-> e[thrown[k].ev]]

\* C20: the sink receives one delivery for each error a hook, a behavior or
\* a watch callback threw in the handler, in order: it goes to the handler
\* configured at that time and to nothing else when one is configured, to
\* the diagnostic log otherwise, and it carries the error thrown and the
\* phase, which is one of onCreate, onMount, onUnmount, watch.
C20_OneSinkPerError ==
    /\ Len(out.sink) = Len(ThrownIn(out.log))
    /\ \A k \in 1..Len(out.sink) :
           /\ out.sink[k].to = IF globalConfig.onError # NoHandler
                                THEN globalConfig.onError ELSE "console"
           /\ <<out.sink[k].error, out.sink[k].phase, out.sink[k].isBehavior>>
                  = ThrownIn(out.log)[k]
           /\ out.sink[k].phase \in {"onCreate", "onMount", "onUnmount", "watch"}

\* After the handler was replaced, a connect whose create hook and mount
\* hook throw delivers both errors to the second handler.
C20_Witness ==
    /\ out.op = "connect"
    /\ globalConfig.onError = "h2"
    /\ Len(out.sink) = 2
    /\ out.sink[1].to = "h2" /\ out.sink[1].phase = "onCreate"
    /\ out.sink[2].to = "h2" /\ out.sink[2].phase = "onMount"

----------------------------------------------------------------------------
\* C21: createView throws when the class has no render() method and no
\* template option is given; the failure does not reach the error sink, and
\* the call changes nothing: the registry of custom elements and the
\* prototype of the class (so no prop accessor is defined on it) are as
\* before, like everything else.
C21_CreateViewFailsCleanly ==
    [][(out'.op = "createView" /\ ~hasRender(VMClass) /\ ~out'.arg.template) =>
          /\ out'.thrown
          /\ out'.sink = <<>>
          /\ customElements' = customElements
          /\ VMClass' = VMClass
          /\ <<created, options, globalConfig, connected, el, vm, mobx, beh>>'
                 = <<created, options, globalConfig, connected, el, vm, mobx, beh>>]_vars

\* createView has thrown for a class without render(): no tag is
\* registered and the prototype of the class has no accessor.
C21_Witness ==
    /\ out.op = "createView"
    /\ out.thrown
    /\ ~out.arg.template
    /\ ~hasRender(VMClass)
    /\ Tag \notin customElements
    /\ EnumerableKeys(VMClass.chain[1]) = {}

----------------------------------------------------------------------------
\* C22: a failure of the render function is never handed to the error
\* sink: the sink is only called with the phases onCreate, onMount,
\* onUnmount and watch, and never with the exception of a render; the
\* core does not catch that exception, which leaves the function given to
\* autorun and arrives at the error boundary of the MobX reaction.
SinkPhases == {"onCreate", "onMount", "onUnmount", "watch"}

C22_RenderFailureBypassesSink ==
    /\ \A i \in DOMAIN out.sink :
          /\ out.sink[i].phase \in SinkPhases
          /\ out.sink[i].error # "renderError"
    /\ \A i \in DOMAIN out.log :
          out.log[i].ev = "render.throws" =>
              /\ i < Len(out.log)
              /\ out.log[i + 1] = Ev("mobxCaught", 0, 0)

\* A render function has thrown in a step in which the sink was called
\* for a hook: the sink works, and holds one entry only.
C22_Witness ==
    /\ \E i \in DOMAIN out.log : out.log[i].ev = "render.throws"
    /\ Len(out.sink) = 1
    /\ out.sink[1].phase = "onCreate"

----------------------------------------------------------------------------
\* The instrumentation mode of the instances of the view: explicit when the
\* class has a decorator, else inferred when autoObservable is set, else
\* the pass-through of makeObservable(this).
Mode ==
    IF getAnnotations(VMClass) # NoAnnotations THEN "explicit"
    ELSE IF options.autoObservable THEN "inferred"
    ELSE "passthrough"

\* C23: after instrumentation in inferred or explicit mode every method
\* the instance finds on its prototype chain, other than the excluded ones
\* (the members of the base class and the names that begin with an
\* underscore), is bound to the instance: called detached from the
\* instance, it runs with the instance as its receiver.  The methods
\* considered are the ones no decorator names.
C23_MethodsAreBound ==
    (/\ out.op = "callDetached"
     /\ Mode \in {"inferred", "explicit"}
     /\ out.key \notin BASE_EXCLUDES
     /\ ~startsWithUnderscore(out.key)
     /\ out.key \notin DOMAIN getAnnotations(VMClass))
        => /\ ~out.thrown
           /\ out.log = <<Ev("call", 0, 1)>>

----------------------------------------------------------------------------
\* C24: the mode of a view is the autoObservable option of its createView
\* call when the call gives one, and otherwise the global value at the time
\* of the call: the option of the view overrides the global setting, a call
\* of configure after createView does not change the mode of the view, and
\* the instances of the view are instrumented with that mode.
C24_ModeFromOptionOrGlobal ==
    [][/\ (out'.op = "createView" /\ ~out'.thrown /\ Tag \notin customElements) =>
              options'.autoObservable =
                  IF "autoObservable" \in out'.arg.keys
                  THEN out'.arg.autoObservable
                  ELSE globalConfig.autoObservable
       /\ out'.op # "createView" => options' = options
       /\ \A i \in DOMAIN out'.log :
              out'.log[i].ev = "instrument" =>
                  /\ out'.log[i].val = (IF options.autoObservable THEN 1 ELSE 0)
                  /\ vm'.annotations = Annotations(VMClass, options.autoObservable)]_vars

\* An instance has been instrumented with the mode its createView call
\* gave while the global setting is the other one.
C24_Witness ==
    /\ out.op = "mount"
    /\ \E i \in DOMAIN out.log : out.log[i].ev = "instrument"
    /\ options.autoObservable # globalConfig.autoObservable
    /\ vm.annotations = Annotations(VMClass, options.autoObservable)
    /\ vm.annotations # Annotations(VMClass, globalConfig.autoObservable)

----------------------------------------------------------------------------
\* The positions of the event e in the log of the last step.
Positions(e) == {i \in DOMAIN out.log : out.log[i].ev = e}

\* C25: mount assigns every supplied prop to the element before it appends
\* the element: all assignments come after createElement and before
\* appendChild, the connect (instrumentation, create hook) comes after
\* appendChild, the storage of the instance holds every supplied value, and
\* a create hook that reads a supplied prop reads the supplied value.
C25_MountAssignsBeforeAppend ==
    (out.op = "mount" /\ ~out.thrown) =>
        /\ out.log[1] = Ev("createElement", 0, 0)
        /\ Cardinality(Positions("assign")) = Cardinality(DOMAIN out.arg)
        /\ Cardinality(Positions("appendChild")) = 1
        /\ \A a \in Positions("appendChild") :
              /\ \A i \in Positions("assign") : i < a
              /\ \A i \in Positions("instrument") \cup Positions("onCreate") : a < i
        /\ Positions("onCreate") # {}
        /\ \A key \in DOMAIN out.arg :
              ReadKey(vm.PROP_VALUES, key) = deepEnhancer(out.arg[key])
        /\ out.key \in DOMAIN out.arg => out.result = deepEnhancer(out.arg[out.key])

\* mount was given every prop, one of them an array, and the create hook
\* has read the array.
C25_Witness ==
    /\ out.op = "mount"
    /\ ~out.thrown
    /\ DOMAIN out.arg = PropKeys
    /\ out.key \in DOMAIN out.arg
    /\ out.arg[out.key].t = "array"
    /\ out.result = deepEnhancer(out.arg[out.key])
    /\ connected

----------------------------------------------------------------------------
----------------------------------------------------------------------------
\* The role the plan of the instance gives to a member name.
Role(key) == IF key \in DOMAIN vm.annotations THEN vm.annotations[key] ELSE "none"

\* The names of the members of the instance.
MemberNames(c) ==
    OwnKeys(c) \cup UNION {{d.key : d \in c.chain[l]} : l \in 1..Len(c.chain)}

\* The kind of the nearest definition of key on the prototype chain from
\* level l on, or none.
RECURSIVE NearestKind(_, _, _)
NearestKind(c, key, l) ==
    IF l > Len(c.chain) THEN "none"
    ELSE IF \E d \in c.chain[l] : d.key = key
    THEN (CHOOSE d \in c.chain[l] : d.key = key).kind
    ELSE NearestKind(c, key, l + 1)

\* The reference classification of inferred mode: base class members,
\* names with an underscore and declared props have no role; an own field
\* that holds a behavior is reference-state, one that holds another
\* non-function value is mutable state; any other name has the role of its
\* nearest definition on the prototype chain, computed for a getter and
\* bound action for a method.
ReferenceRole(c, key) ==
    IF key \in BASE_EXCLUDES \/ startsWithUnderscore(key) THEN "none"
    ELSE IF key \in c.PROPERTIES THEN "none"
    ELSE IF HasField(c, key) /\ KindOf(FieldAt(c, key)) = "behavior" THEN "observable.ref"
    ELSE IF HasField(c, key) /\ KindOf(FieldAt(c, key)) = "value" THEN "observable"
    ELSE CASE NearestKind(c, key, 1) = "getter" -> "computed"
           [] NearestKind(c, key, 1) = "method" -> "action.bound"
           [] OTHER -> "none"

\* C27: in inferred mode the role of every member is the one the
\* reference classification gives it.
C27_InferredMatchesReference ==
    (vm.initialized /\ Mode = "inferred") =>
        \A key \in MemberNames(VMClass) : Role(key) = ReferenceRole(VMClass, key)

----------------------------------------------------------------------------
\* C28: a member name has at most one role, the first one assigned: the
\* role of an explicit annotation is never replaced by an inferred or
\* auto-bound one, and in the walk of the prototype chain a name that has
\* a role from a more derived class (or from an own field) keeps it.  In
\* inferred mode a role is therefore the one of the own field or of the
\* nearest definition; in explicit mode an auto-bound role goes only to a
\* name without annotation that some prototype defines as a method.
C28_FirstRoleIsKept ==
    vm.initialized =>
        /\ \A key \in DOMAIN getAnnotations(VMClass) :
              Role(key) = getAnnotations(VMClass)[key]
        /\ Mode = "inferred" =>
              \A key \in MemberNames(VMClass) :
                  Role(key) # "none" => Role(key) = ReferenceRole(VMClass, key)
        /\ Mode = "explicit" =>
              \A key \in MemberNames(VMClass) \ DOMAIN getAnnotations(VMClass) :
                  /\ Role(key) \in {"none", "action.bound"}
                  /\ Role(key) = "action.bound" =>
                        \E l \in 1..Len(VMClass.chain) :
                            Descriptor(key, "method", FALSE) \in VMClass.chain[l]

\* An instance was instrumented whose class has an annotated getter that
\* a less derived class defines as a method without annotation: the name
\* is computed, the role of its annotation.
C28_Witness ==
    /\ vm.initialized
    /\ Mode = "explicit"
    /\ \E key \in DOMAIN getAnnotations(VMClass) :
          /\ Descriptor(key, "getter", TRUE) \in VMClass.chain[1]
          /\ Descriptor(key, "method", FALSE) \in VMClass.chain[2]
          /\ Role(key) = "computed"

----------------------------------------------------------------------------
\* The members of the base class: the hooks, render, watch and the
\* internal bookkeeping members.
Infrastructure ==
    {"onCreate", "onMount", "onUnmount", "render", "watch",
     "_behaviors", "_watchDisposers", "_mountCleanup", "_initialized",
     "_autoObservable"}

----------------------------------------------------------------------------
\* The kinds of the definitions of key on the prototype chain.
ChainKinds(c, key) ==
    UNION {{d.kind : d \in {x \in c.chain[l] : x.key = key}} : l \in 1..Len(c.chain)}

\* C30: the instances of a class that has a decorator are instrumented in
\* explicit mode whatever autoObservable is: an annotated member has the
\* role of its annotation; a name without annotation that the chain
\* defines as a method, and that is not a member of the base class, is a
\* bound action; a name without annotation that is an own field or a getter
\* only has no role.
C30_ExplicitModePlan ==
    (vm.initialized /\ getAnnotations(VMClass) # NoAnnotations) =>
        \A key \in MemberNames(VMClass) :
            IF key \in DOMAIN getAnnotations(VMClass)
            THEN Role(key) = getAnnotations(VMClass)[key]
            ELSE IF key \in BASE_EXCLUDES THEN Role(key) = "none"
            ELSE IF key \in Methods(VMClass) THEN Role(key) = "action.bound"
            ELSE "method" \notin ChainKinds(VMClass, key) => Role(key) = "none"

----------------------------------------------------------------------------
\* C31: when the class has no decorator and autoObservable is false, the
\* instrumentation assigns no role (no field is observable, no getter
\* computed, no method bound); the storage of the props is made observable
\* all the same, when the instance has one, and the behaviors of the public
\* fields are collected.
C31_PassthroughAssignsNothing ==
    (out.op = "mount" /\ ~out.thrown /\ Mode = "passthrough") =>
        /\ vm.initialized
        /\ \A key \in MemberNames(VMClass) : Role(key) = "none"
        /\ DOMAIN out.arg # {} =>
              /\ vm.PROP_VALUES.kind = "observable"
              /\ vm.PROP_VALUES_OBSERVABLE
        /\ vm.behaviors = [k \in 1..NumBehaviors |-> k]

\* An instance of a class with fields, a getter and methods was mounted
\* with props and instrumented in pass-through mode.
C31_Witness ==
    /\ out.op = "mount"
    /\ ~out.thrown
    /\ Mode = "passthrough"
    /\ DOMAIN out.arg = PropKeys
    /\ NearestKind(VMClass, "completedCount", 1) = "getter"
    /\ NearestKind(VMClass, "increment", 1) = "method"
    /\ HasField(VMClass, "count")
    /\ vm.annotations = NoAnnotations
    /\ vm.PROP_VALUES_OBSERVABLE
    /\ Len(vm.behaviors) = NumBehaviors

----------------------------------------------------------------------------
\* C32: an instance is instrumented at most once: once it is initialized,
\* no later handler instruments it again (wraps the storage of the props,
\* applies the plan, collects the behaviors), so its plan and its list of
\* behavior entries stay what the first connect made them, the list
\* holding each behavior of a public field once.
C32_InstrumentedOnce ==
    [][vm.initialized =>
          /\ \A i \in DOMAIN out'.log : out'.log[i].ev # "instrument"
          /\ vm'.initialized
          /\ vm'.annotations = vm.annotations
          /\ vm'.behaviors = vm.behaviors
          /\ vm.behaviors = [k \in 1..NumBehaviors |-> k]]_vars

\* The element has connected a second time, up to its mount hook, without
\* instrumenting the instance again.
C32_Witness ==
    /\ out.op = "connect"
    /\ ~out.thrown
    /\ \E i \in DOMAIN out.log : out.log[i].ev = "onMount"
    /\ \A i \in DOMAIN out.log : out.log[i].ev # "instrument"
    /\ vm.initialized
    /\ vm.behaviors = [k \in 1..NumBehaviors |-> k]

----------------------------------------------------------------------------
\* The own fields of the instance that hold a behavior and whose name has
\* no underscore.
PublicBehaviorFields(c) ==
    {i \in 1..Len(c.fields) :
        ~startsWithUnderscore(c.fields[i].key) /\ c.fields[i].behavior # 0}

\* The behaviors the host has registered.
Registered(entries) == {entries[k] : k \in 1..Len(entries)}

\* C33: the instrumentation registers one behavior entry for each own
\* field whose name has no underscore and whose value is a behavior then,
\* and no other; the list never changes afterwards, so a behavior stored in
\* a field later, or assigned to a declared prop, is never registered, and
\* the host mounts and unmounts registered behaviors only.
C33_EntriesAreFieldsAtInstrumentation ==
    [][/\ (\E i \in DOMAIN out'.log : out'.log[i].ev = "instrument") =>
              /\ Len(vm'.behaviors) = Cardinality(PublicBehaviorFields(VMClass))
              /\ Registered(vm'.behaviors) =
                     {VMClass.fields[i].behavior : i \in PublicBehaviorFields(VMClass)}
       /\ vm.initialized => vm'.behaviors = vm.behaviors
       /\ \A i \in DOMAIN out'.log :
              out'.log[i].ev \in {"mountBehavior", "unmountBehavior"} =>
                  out'.log[i].id \in Registered(vm'.behaviors)]_vars

\* The host has connected and mounted its behaviors while a field holds a
\* behavior that was stored after the instrumentation and a prop holds
\* another: neither is registered or mounted.
C33_Witness ==
    /\ out.op = "connect"
    /\ \E i \in DOMAIN out.log : out.log[i].ev = "mountBehavior"
    /\ \A i \in DOMAIN out.log : out.log[i].ev # "instrument"
    /\ VMClass.fields[1].behavior = NumBehaviors + 1
    /\ NumBehaviors + 1 \notin Registered(vm.behaviors)
    /\ ~beh[NumBehaviors + 1]
    /\ \E key \in PropKeys : vm.PROP_VALUES.values[key].t = "behavior"

----------------------------------------------------------------------------
\* C34: a teardown function a mount hook returned is invoked once, by the
\* first disconnect after the connect that produced it, and by no later
\* one: a disconnect that follows a connect whose mount hook threw, or did
\* not run, produced no teardown and invokes none.
C34_TeardownRunsOnce ==
    [][(/\ out.op = "connect"
        /\ out'.op = "disconnect"
        /\ (~Has("onMount") \/ Has("onMount.throws"))) =>
           \A k \in 1..Len(out'.log) : out'.log[k].ev # "teardown"]_vars

----------------------------------------------------------------------------
\* C35: an exception the configured onError handler throws does not leave
\* connect or disconnect, and the steps that follow the failed hook run: a
\* connect still reaches its mount hook, a disconnect still unmounts the
\* behaviors.
C35_HandlerFailureContained ==
    (out.op \in {"connect", "disconnect"} /\ Has("onError.throws")) =>
        /\ ~(out.thrown /\ out.err = "handlerError")
        /\ out.op = "connect" => Has("onMount")
        /\ out.op = "disconnect" =>
              Times("unmountBehavior") = Len(vm.behaviors)

----------------------------------------------------------------------------
\* C36: a prop declared with @property() in a class that extends another
\* is recorded for that class only: the declared props of the base class
\* are the ones declared in the base class, the declared props of an
\* extending class are its own (and at most those of its base class), and
\* createView of the base class defines accessors for the props of the
\* base class only.
C36_PropsRecordedPerClass ==
    LET statics == VMClass.statics
    IN  /\ PropertiesOf(statics, "Base") \subseteq statics.declared["Base"]
        /\ \A ctor \in Ctors \ {"Base"} :
              PropertiesOf(statics, ctor)
                  \subseteq statics.declared[ctor] \cup statics.declared["Base"]
        /\ EnumerableKeys(VMClass.chain[1]) \subseteq statics.declared["Base"]

ResultsOf(record, result) == SelectSeq(record.results, LAMBDA r : r = result)

SinkCalls(record) == SelectSeq(record.log, LAMBDA x : x.ev = "renderSink")

C38_NullRenderSkipsSink ==
    [][/\ Len(SinkCalls(out')) = Len(ResultsOf(out', "template"))
       /\ \A k \in DOMAIN out'.log :
              out'.log[k].ev = "renderSink" =>
                  /\ k > 1
                  /\ out'.log[k - 1] = [out'.log[k] EXCEPT !.ev = "render"]
       /\ (out'.op \in {"connect", "set"} /\ ResultsOf(out', "null") # <<>>) =>
              /\ mobx'.renders = 1
              /\ el'.renderDisposer = "live"
       /\ (/\ ResultsOf(out, "null") # <<>>
           /\ out.op # "disconnect"
           /\ out'.op = "set"
           /\ out'.results = <<"template">>) =>
              SinkCalls(out') = <<Ev("renderSink", 0, vm'.count)>>]_vars

\* A run of the render function that returned null has left the sink
\* alone, and the change after it, rendered as a template, has reached the
\* sink.
C38_Witness ==
    /\ out.op = "set"
    /\ out.results = <<"null">>
    /\ ~Has("renderSink")
    /\ mobx.renders = 1
    /\ connected

\* ---------------------------------------------------------------------------
\* C39: mount throws when the tag is not registered, before it creates an
\* element; it throws when its container argument is a selector that
\* matches no element, and then the element it created is never appended
\* and never connected; without a container argument it appends the element
\* to document.body (and with a selector that matches, or an element, to
\* that element).
ConnectEvents == {"appendChild", "instrument", "onCreate", "autorun", "render",
                  "mountBehavior", "onMount"}

C39_MountTargets ==
    out.op = "mount" =>
        /\ Tag \notin customElements =>
               /\ out.thrown /\ out.err = "Error"
               /\ out.log = <<>>
               /\ ~created /\ ~connected
        /\ (Tag \in customElements /\ out.container = "missing") =>
               /\ out.thrown /\ out.err = "Error"
               /\ out.log[1] = Ev("createElement", 0, 0)
               /\ \A i \in DOMAIN out.log : out.log[i].ev \notin ConnectEvents
               /\ ~connected
               /\ ~vm.initialized
               /\ el.renderRoot = "undefined"
        /\ (Tag \in customElements /\ out.container # "missing") =>
               /\ ~out.thrown
               /\ Cardinality(Positions("appendChild")) = 1
               /\ connected
               /\ out.target = CASE out.container = "undefined" -> "document.body"
                                 [] out.container = "found" -> "matched"
                                 [] OTHER -> out.container

\* mount was given a selector without a match and props: the element was
\* made, got its props and stayed out of the document.
C39_Witness ==
    /\ out.op = "mount"
    /\ Tag \in customElements
    /\ out.container = "missing"
    /\ out.thrown
    /\ Has("createElement")
    /\ Has("assign")
    /\ ~connected

====
